---- MODULE Spec2Model ----
(***************************************************************************)
(* DroneASM: the compiler front end (preprocess, tokenize, validate_line,  *)
(* Program.add_line, compile) and the register-machine interpreter         *)
(* (DroneVM.run_program) driven by the host of DroneASMInterface.          *)
(*                                                                         *)
(* Characters are one-character strings, a source line is a sequence of    *)
(* characters, a token is [token_type, value] with value the sequence of   *)
(* characters that "".join(current_token) holds.                           *)
(***************************************************************************)
EXTENDS Integers, Sequences, FiniteSets, TLC

(***************************************************************************)
(* Python's str predicates and methods, on the characters the model uses.  *)
(***************************************************************************)
Digits == <<"0", "1", "2", "3", "4", "5", "6", "7", "8", "9">>

UpperLetters == <<"A", "B", "C", "D", "E", "F", "G", "H", "I", "J", "K", "L", "M",
                  "N", "O", "P", "Q", "R", "S", "T", "U", "V", "W", "X", "Y", "Z">>

LowerLetters == <<"a", "b", "c", "d", "e", "f", "g", "h", "i", "j", "k", "l", "m",
                  "n", "o", "p", "q", "r", "s", "t", "u", "v", "w", "x", "y", "z">>

Range(s) == {s[i] : i \in DOMAIN s}

isspace(c) == c \in {" ", "\t"}

isdigit(c) == c \in Range(Digits)

isalpha(c) == c \in Range(UpperLetters) \cup Range(LowerLetters)

isalnum(c) == isalpha(c) \/ isdigit(c)

\* str.upper() of one character
upper_char(c) ==
    IF c \in Range(LowerLetters)
    THEN UpperLetters[CHOOSE i \in DOMAIN LowerLetters : LowerLetters[i] = c]
    ELSE c

\* str.upper()
upper(line) == [i \in DOMAIN line |-> upper_char(line[i])]

\* str.find(ch): the 0-based index of the first occurrence, -1 when absent
find(line, ch) ==
    IF \E i \in DOMAIN line : line[i] = ch
    THEN (CHOOSE i \in DOMAIN line :
              line[i] = ch /\ \A j \in 1..(i - 1) : line[j] # ch) - 1
    ELSE -1

\* str.strip(): drops leading and trailing whitespace
strip(line) ==
    IF \A i \in DOMAIN line : isspace(line[i]) THEN <<>>
    ELSE LET first == CHOOSE i \in DOMAIN line :
                          ~isspace(line[i]) /\ \A j \in 1..(i - 1) : isspace(line[j])
             last == CHOOSE i \in DOMAIN line :
                          ~isspace(line[i]) /\ \A j \in (i + 1)..Len(line) : isspace(line[j])
         IN SubSeq(line, first, last)

\* "".join(chars): the string a token's value is compared as
RECURSIVE join(_)
join(chars) == IF chars = <<>> THEN "" ELSE Head(chars) \o join(Tail(chars))

\* the value of one decimal digit
digit_value(c) == (CHOOSE i \in DOMAIN Digits : Digits[i] = c) - 1

\* the number a non-empty run of decimal digits denotes
RECURSIVE digits_value(_)
digits_value(ds) ==
    IF ds = <<>> THEN 0
    ELSE 10 * digits_value(SubSeq(ds, 1, Len(ds) - 1)) + digit_value(ds[Len(ds)])

ValueError == [exc |-> "ValueError", val |-> 0]

\* int(str): optional surrounding whitespace, optional sign, decimal digits with
\* single underscores between digits; anything else raises ValueError
int_digits(negative, body) ==
    IF /\ body # <<>>
       /\ \A i \in DOMAIN body : isdigit(body[i]) \/ body[i] = "_"
       /\ isdigit(body[1]) /\ isdigit(body[Len(body)])
       /\ \A i \in 1..(Len(body) - 1) : ~(body[i] = "_" /\ body[i + 1] = "_")
    THEN [exc |-> "none",
          val |-> (IF negative THEN -1 ELSE 1) * digits_value(SelectSeq(body, isdigit))]
    ELSE ValueError

int_signed(s) ==
    IF s # <<>> /\ s[1] \in {"+", "-"} THEN int_digits(s[1] = "-", Tail(s))
    ELSE int_digits(FALSE, s)

int(chars) == int_signed(strip(chars))

(***************************************************************************)
(* asm_constants.py                                                        *)
(***************************************************************************)
ARGS_DICT ==
    [n \in 0..3 |->
        CASE n = 0 -> {"NOP", "HALT", "JUMP_RETURN", "POP_RETURN", "TAKEOFF", "LAND"}
          [] n = 1 -> {"PUSH_NUM", "PUSH_RETURN", "PUSH_PIC", "POP_NUM", "POP_PIC", "JUMP",
                       "FORWARD", "BACKWARD", "LEFT", "RIGHT", "UP", "DOWN", "ROTATE_CW",
                       "ROTATE_CCW", "DISPLAY", "TAKE_PIC"}
          [] n = 2 -> {"STORE", "COPY", "COPY_PIC", "LOAD_PIC"}
          [] n = 3 -> {"BRANCH_EQ", "BRANCH_NE", "BRANCH_GT", "BRANCH_LT", "BRANCH_GE",
                       "BRANCH_LE", "ADD", "SUB", "MULT", "DIV", "IDIV", "RDIV",
                       "DETECT_FACE", "MATCH_FACE"}]

COMMAND_LIST == UNION {ARGS_DICT[n] : n \in DOMAIN ARGS_DICT}

Token(token_type, value) == [token_type |-> token_type, value |-> value]

_NOP_TOKEN == Token("Command", <<"N", "O", "P">>)

(***************************************************************************)
(* asm_tokenizer.py                                                        *)
(***************************************************************************)
type_dict ==
    [s \in {"PicReg2", "NumReg2", "Str2", "Num1", "Num2", "Id", "Lbl"} |->
        CASE s = "PicReg2" -> "PicReg"
          [] s = "NumReg2" -> "NumReg"
          [] s = "Str2" -> "String"
          [] s = "Num1" -> "IntNumber"
          [] s = "Num2" -> "FloatNumber"
          [] s = "Id" -> "Identifier"
          [] s = "Lbl" -> "Label"]

detect_command(token) ==
    IF token.token_type = "Identifier" /\ join(token.value) \in COMMAND_LIST
    THEN Token("Command", token.value)
    ELSE token

\* the FSM's local variables; exc is the message of a raised TokenizerErrorException
Fsm(state, current_token, result, exc) ==
    [state |-> state, current_token |-> current_token, result |-> result, exc |-> exc]

\* the match statement: one non-terminating character in one state
fsm_update(f, char) ==
    LET go(state) == Fsm(state, f.current_token, f.result, "")
        keep(state) == Fsm(state, Append(f.current_token, char), f.result, "")
        raise(msg) == Fsm(f.state, f.current_token, f.result, msg)
    IN CASE f.state = "S" ->
              IF char = "$" THEN go("Reg")
              ELSE IF char = "\"" THEN go("Str1")
              ELSE IF isdigit(char) \/ char \in {"+", "-"} THEN keep("Num1")
              ELSE IF isalpha(char) THEN keep("Id")
              ELSE raise("Unknown/incorrect symbol in token.")
         [] f.state = "Reg" ->
              IF char = "P" THEN go("PicReg1")
              ELSE IF char = "R" THEN go("NumReg1")
              ELSE raise("Unknown/incorrect symbol in register token.")
         [] f.state = "PicReg1" ->
              IF isdigit(char) THEN keep("PicReg2")
              ELSE raise("Unknown/incorrect symbol picture in register token.")
         [] f.state = "PicReg2" ->
              IF isdigit(char) THEN keep("PicReg2")
              ELSE raise("Unknown/incorrect symbol in picture register token.")
         [] f.state = "NumReg1" ->
              IF isdigit(char) THEN keep("NumReg2")
              ELSE raise("Unknown/incorrect symbol in register token.")
         [] f.state = "NumReg2" ->
              IF isdigit(char) THEN keep("NumReg2")
              ELSE raise("Unknown/incorrect symbol in register token.")
         [] f.state = "Str1" ->
              IF char = "\"" THEN go("Str2") ELSE keep("Str1")
         [] f.state = "Num1" ->
              IF char = "." THEN keep("Num2")
              ELSE IF isdigit(char) THEN keep("Num1")
              ELSE raise("Unknown/incorrect symbol in number token.")
         [] f.state = "Num2" ->
              IF isdigit(char) THEN keep("Num2")
              ELSE raise("Unknown/incorrect symbol in number token.")
         [] f.state = "Id" ->
              IF isalnum(char) \/ char = "_" THEN keep("Id")
              ELSE IF char = ":" THEN go("Lbl")
              ELSE raise("Unknown/incorrect symbol in identifier token.")
         [] OTHER -> raise("Unknown state.")

\* one iteration of the loop over the line's characters
fsm_char(f, char) ==
    IF isspace(char) /\ f.state # "Str1"
    THEN IF f.state \in DOMAIN type_dict
         THEN Fsm("S", <<>>,
                  Append(f.result, Token(type_dict[f.state], f.current_token)), "")
         ELSE f
    ELSE fsm_update(f, char)

\* the loop over the line's characters, from character i on
RECURSIVE fsm_loop(_, _, _)
fsm_loop(line, i, f) ==
    IF i > Len(line) \/ f.exc # "" THEN f
    ELSE fsm_loop(line, i + 1, fsm_char(f, line[i]))

\* an end of line that returns the tokens closed so far whatever the state
tokenize_end_anywhere(f) ==
    IF f.exc # ""
    THEN [exc |-> "TokenizerErrorException", message |-> f.exc, tokens |-> <<>>]
    ELSE [exc |-> "none", message |-> "",
          tokens |-> [k \in DOMAIN f.result |-> detect_command(f.result[k])]]

\* tokenize(line): [exc, message, tokens]
\* after the loop: the last token is closed when the FSM stopped in a terminal
\* state, and every token is passed through detect_command
tokenize_end(f) ==
    LET result == Append(f.result, Token(type_dict[f.state], f.current_token))
    IN IF f.exc # ""
       THEN [exc |-> "TokenizerErrorException", message |-> f.exc, tokens |-> <<>>]
       ELSE IF f.state \in DOMAIN type_dict
            THEN [exc |-> "none", message |-> "",
                  tokens |-> [k \in DOMAIN result |-> detect_command(result[k])]]
       ELSE [exc |-> "TokenizerErrorException", message |-> "Unknown/incomplete token.",
             tokens |-> <<>>]

\* the stripped line: an empty one has no tokens
tokenize_stripped(line) ==
    IF line = <<>> THEN [exc |-> "none", message |-> "", tokens |-> <<>>]
    ELSE tokenize_end(fsm_loop(upper(line), 1, Fsm("S", <<>>, <<>>, "")))

\* tokenize(line): [exc, message, tokens]
tokenize(line) == tokenize_stripped(strip(line))

(***************************************************************************)
(* asm_validator.py                                                        *)
(***************************************************************************)
\* "Numeric" read as a number register or a literal
_test_numeric(token) == token.token_type \in {"IntNumber", "FloatNumber", "NumReg"}

_test_numerical(token) == token.token_type \in {"IntNumber", "FloatNumber"}

\* a register of either bank
_test_register(token) == token.token_type \in {"NumReg", "PicReg"}

_test_num_register(token) == token.token_type = "NumReg"

_test_pic_register(token) == token.token_type = "PicReg"

_test_identifier(token) == token.token_type = "Identifier"

_test_string(token) == token.token_type = "String"

\* `case "PUSH_PIC", "POP_PIC", "TAKE_PIC":` is a sequence pattern of three
\* sub-patterns: it matches a three-element sequence subject, and Python never
\* matches a str subject against a sequence pattern.  The subject here is the
\* command token's value, a str.
case_pic_sequence_pattern(subject_is_str, value) ==
    ~subject_is_str /\ value = <<"PUSH_PIC", "POP_PIC", "TAKE_PIC">>

\* the match statement on the command: TRUE when arg_type_exception is raised
arg_type_mismatch(cmd, args) ==
    CASE cmd \in {"PUSH_NUM", "FORWARD", "BACKWARD", "LEFT", "RIGHT", "UP", "DOWN",
                  "ROTATE_CW", "ROTATE_CCW"} ->
             ~(_test_num_register(args[1]) \/ _test_numerical(args[1]))
      [] cmd \in {"PUSH_RETURN", "JUMP"} ->
             ~_test_identifier(args[1])
      [] case_pic_sequence_pattern(TRUE, cmd) ->
             ~_test_pic_register(args[1])
      [] cmd = "POP_NUM" ->
             ~_test_num_register(args[1])
      [] cmd = "DISPLAY" ->
             ~(_test_string(args[1]) \/ _test_num_register(args[1])
               \/ _test_numerical(args[1]) \/ _test_pic_register(args[1]))
      [] cmd = "STORE" ->
             ~(_test_numerical(args[1]) /\ _test_num_register(args[2]))
      [] cmd = "COPY" ->
             ~(_test_num_register(args[1]) /\ _test_num_register(args[2]))
      [] cmd = "COPY_PIC" ->
             ~(_test_pic_register(args[1]) /\ _test_pic_register(args[2]))
      [] cmd \in {"BRANCH_EQ", "BRANCH_NE", "BRANCH_GT", "BRANCH_LT", "BRANCH_GE",
                  "BRANCH_LE"} ->
             \/ ~(_test_num_register(args[1]) \/ _test_numerical(args[1]))
             \/ ~(_test_num_register(args[2]) \/ _test_numerical(args[2]))
             \/ ~_test_identifier(args[3])
      [] cmd \in {"ADD", "SUB", "MULT", "DIV", "IDIV", "RDIV"} ->
             \/ ~(_test_num_register(args[1]) \/ _test_numerical(args[1]))
             \/ ~(_test_num_register(args[2]) \/ _test_numerical(args[2]))
             \/ ~_test_num_register(args[3])
      [] OTHER -> FALSE

Raised(exc, message) == [exc |-> exc, message |-> message]

NoException == Raised("none", "")

\* validate_line(tokens): the exception it raises, NoException when it returns.
\* tokens[k] of a list too short raises IndexError, ARGS_DICT[n] of a missing key
\* raises KeyError.
validate_line(tokens) ==
    LET label_offset == IF tokens[1].token_type = "Label" THEN 1 ELSE 0
        command == tokens[label_offset + 1]
        nargs == Len(tokens) - (label_offset + 1)
        args == SubSeq(tokens, label_offset + 2, Len(tokens))
    IN IF Len(tokens) = 0 THEN Raised("IndexError", "list index out of range")
       ELSE IF Len(tokens) < label_offset + 1
            THEN Raised("IndexError", "list index out of range")
       ELSE IF command.token_type # "Command"
            THEN Raised("ValidationErrorException", "Line does not start with a command.")
       ELSE IF nargs \notin DOMAIN ARGS_DICT THEN Raised("KeyError", "")
       ELSE IF join(command.value) \notin ARGS_DICT[nargs]
            THEN Raised("ValidationErrorException",
                        "Invalid number of arguments for specified command.")
       ELSE IF arg_type_mismatch(join(command.value), args)
            THEN Raised("ValidationErrorException",
                        "Invalid argument type(s) for specified command.")
       ELSE NoException

(***************************************************************************)
(* asm_constants.py: class Program                                         *)
(***************************************************************************)
\* Program(): label_map is a dict keyed by label text, tokenized_lines a list
NewProgram == [label_map |-> <<>>, tokenized_lines |-> <<>>]

\* dict item assignment d[k] = v
dict_set(d, k, v) == [j \in DOMAIN d \cup {k} |-> IF j = k THEN v ELSE d[j]]

\* an add_line that records a label against the count after appending
add_line_after(program, line) ==
    IF Len(line) = 0
    THEN [program EXCEPT !.tokenized_lines = Append(@, <<_NOP_TOKEN>>)]
    ELSE IF line[1].token_type = "Label"
         THEN [label_map |-> dict_set(program.label_map, join(line[1].value),
                                      Len(program.tokenized_lines) + 1),
               tokenized_lines |->
                   Append(program.tokenized_lines,
                          Tail(IF Len(line) = 1 THEN Append(line, _NOP_TOKEN) ELSE line))]
    ELSE [program EXCEPT !.tokenized_lines = Append(@, line)]

add_line(program, line) ==
    IF Len(line) = 0
    THEN [program EXCEPT !.tokenized_lines = Append(@, <<_NOP_TOKEN>>)]
    ELSE IF line[1].token_type = "Label"
         THEN [label_map |-> dict_set(program.label_map, join(line[1].value),
                                      Len(program.tokenized_lines)),
               tokenized_lines |->
                   Append(program.tokenized_lines,
                          Tail(IF Len(line) = 1 THEN Append(line, _NOP_TOKEN) ELSE line))]
    ELSE [program EXCEPT !.tokenized_lines = Append(@, line)]

\* 0-based, as the interpreter's program_counter
get_line(program, line_num) == program.tokenized_lines[line_num + 1]

line_count(program) == Len(program.tokenized_lines)

\* label_lookup(label): [exc, val]
label_lookup(program, label) ==
    IF label \in DOMAIN program.label_map
    THEN [exc |-> "none", val |-> program.label_map[label]]
    ELSE [exc |-> "LabelNotFoundException", val |-> 0]

(***************************************************************************)
(* asm_compile.py                                                          *)
(***************************************************************************)
preprocess(line) ==
    LET comment_location == find(line, "#")
        cut == IF comment_location >= 0 THEN SubSeq(line, 1, comment_location) ELSE line
    IN strip(upper(cut))

(***************************************************************************)
(* Python values held by registers and stacks.  A float is the exact       *)
(* rational n/d in lowest terms (d > 0): the programs of the model use     *)
(* short decimal literals only.                                            *)
(***************************************************************************)
RECURSIVE gcd(_, _)
gcd(a, b) == IF b = 0 THEN a ELSE gcd(b, a % b)

abs(a) == IF a < 0 THEN 0 - a ELSE a

IntV(n) == [t |-> "int", n |-> n, d |-> 1]

FloatV(n, d) ==
    LET g == IF n = 0 THEN d ELSE gcd(abs(n), d)
    IN [t |-> "float", n |-> n \div g, d |-> d \div g]

\* None
NoneV == [t |-> "None", n |-> 0, d |-> 1]

\* an image (numpy array)
ImgV == [t |-> "img", n |-> 0, d |-> 1]

is_number(v) == v.t \in {"int", "float"}

RECURSIVE pow10(_)
pow10(k) == IF k = 0 THEN 1 ELSE 10 * pow10(k - 1)

\* float(str) of [sign] digits* "." digits*: [exc, val]
float_digits(negative, ipart, fpart) ==
    IF /\ Len(ipart) + Len(fpart) > 0
       /\ \A i \in DOMAIN ipart : isdigit(ipart[i])
       /\ \A i \in DOMAIN fpart : isdigit(fpart[i])
    THEN [exc |-> "none",
          val |-> FloatV((IF negative THEN -1 ELSE 1)
                           * (digits_value(ipart) * pow10(Len(fpart)) + digits_value(fpart)),
                         pow10(Len(fpart)))]
    ELSE [exc |-> "ValueError", val |-> NoneV]

float_point(negative, body, dot) ==
    IF dot >= 0
    THEN float_digits(negative, SubSeq(body, 1, dot), SubSeq(body, dot + 2, Len(body)))
    ELSE float_digits(negative, body, <<>>)

float_signed(s) ==
    IF s # <<>> /\ s[1] \in {"+", "-"} THEN float_point(s[1] = "-", Tail(s), find(Tail(s), "."))
    ELSE float_point(FALSE, s, find(s, "."))

float(chars) == float_signed(strip(chars))

\* int(x) of a number: truncation toward zero
trunc(v) == IF v.n >= 0 THEN v.n \div v.d ELSE 0 - ((0 - v.n) \div v.d)

\* val1 == val2, val1 < val2 on numbers
num_eq(a, b) == a.n * b.d = b.n * a.d

num_lt(a, b) == a.n * b.d < b.n * a.d

result_type(a, b) == IF a.t = "int" /\ b.t = "int" THEN "int" ELSE "float"

typed(t, n, d) == IF t = "int" THEN IntV(n \div d) ELSE FloatV(n, d)

\* the first operand alone
num_first(a, b) == a

num_add(a, b) == typed(result_type(a, b), a.n * b.d + b.n * a.d, a.d * b.d)

num_sub(a, b) == typed(result_type(a, b), a.n * b.d - b.n * a.d, a.d * b.d)

num_mul(a, b) == typed(result_type(a, b), a.n * b.n, a.d * b.d)

\* val1 / val2 (true division), val2 != 0
num_truediv(a, b) ==
    IF b.n > 0 THEN FloatV(a.n * b.d, a.d * b.n) ELSE FloatV(0 - a.n * b.d, 0 - a.d * b.n)

\* floor(val1 / val2), val2 != 0
floor_quot(a, b) ==
    IF b.n > 0 THEN (a.n * b.d) \div (a.d * b.n) ELSE (0 - a.n * b.d) \div (0 - a.d * b.n)

\* val1 // val2, val2 != 0
num_floordiv(a, b) == typed(result_type(a, b), floor_quot(a, b), 1)

\* val1 % val2, val2 != 0
num_mod(a, b) ==
    typed(result_type(a, b), a.n * b.d - floor_quot(a, b) * b.n * a.d, a.d * b.d)

(***************************************************************************)
(* drone.py: the vehicles as the interpreter sees them.  location and      *)
(* facing are kept exact: facing in degrees, and the programs of the model *)
(* turn by multiples of 90 degrees only, where cos and sin are 0, 1 or -1. *)
(* shutdown_calls counts the invocations of shutdown() on the object.      *)
(***************************************************************************)
\* SimulatedDrone(): it has no attribute last_frame
SimulatedDrone ==
    [kind |-> "SimulatedDrone", connected |-> TRUE, flying |-> FALSE,
     location |-> <<0, 0, 0>>, facing |-> 0, last_frame |-> "no attribute",
     stream_active |-> FALSE, shutdown_calls |-> 0]

\* TelloDrone(): not connected, no frame received yet
TelloDrone ==
    [kind |-> "TelloDrone", connected |-> FALSE, flying |-> FALSE,
     location |-> <<0, 0, 0>>, facing |-> 0, last_frame |-> "None",
     stream_active |-> FALSE, shutdown_calls |-> 0]

cos_deg(a) == CASE a % 360 = 0 -> 1 [] a % 360 = 90 -> 0
                [] a % 360 = 180 -> -1 [] a % 360 = 270 -> 0

sin_deg(a) == CASE a % 360 = 0 -> 0 [] a % 360 = 90 -> 1
                [] a % 360 = 180 -> 0 [] a % 360 = 270 -> -1

\* connect(): SimulatedDrone always connects; TelloDrone connects when the drone
\* answers "ok" to "command" within its attempts (ok)
connect(d, ok) ==
    IF d.kind = "SimulatedDrone" THEN [d EXCEPT !.connected = TRUE]
    ELSE [d EXCEPT !.connected = ok, !.stream_active = ok]

connect_result(d, ok) == d.kind = "SimulatedDrone" \/ ok

\* shutdown()
shutdown(d) ==
    IF d.kind = "SimulatedDrone"
    THEN [d EXCEPT !.connected = FALSE, !.shutdown_calls = @ + 1]
    ELSE [d EXCEPT !.last_frame = IF d.connected THEN "None" ELSE @,
                   !.stream_active = IF d.connected THEN FALSE ELSE @,
                   !.shutdown_calls = @ + 1]

\* the range a TelloDrone command accepts
in_command_range(cmd, val) ==
    IF cmd \in {"ROTATE_CW", "ROTATE_CCW"} THEN val \in 1..360 ELSE val \in 20..500

\* what a movement method returns: SimulatedDrone always True; TelloDrone True when
\* val is in range and the drone answered "ok" in time (ok)
move_result(d, cmd, val, ok) ==
    d.kind = "SimulatedDrone" \/ (in_command_range(cmd, val) /\ ok)

\* SimulatedDrone's movement methods; a TelloDrone keeps no position
move(d, cmd, val) ==
    LET loc == d.location
        f == d.facing
        along(a, sign) == <<loc[1] + sign * val * cos_deg(a),
                            loc[2] + sign * val * sin_deg(a), loc[3]>>
    IN IF d.kind # "SimulatedDrone" THEN d
       ELSE CASE cmd = "FORWARD" -> [d EXCEPT !.location = along(f, 1)]
              [] cmd = "BACKWARD" -> [d EXCEPT !.location = along(f, -1)]
              [] cmd = "LEFT" -> [d EXCEPT !.location = along(f + 90, 1)]
              [] cmd = "RIGHT" -> [d EXCEPT !.location = along(f - 90, 1)]
              [] cmd = "UP" -> [d EXCEPT !.location = <<loc[1], loc[2], loc[3] + val>>]
              [] cmd = "DOWN" -> [d EXCEPT !.location = <<loc[1], loc[2], loc[3] - val>>]
              [] cmd = "ROTATE_CW" -> [d EXCEPT !.facing = f - val]
              [] cmd = "ROTATE_CCW" -> [d EXCEPT !.facing = f - val]

\* takeoff() / land()
takeoff(d) == IF d.kind = "SimulatedDrone" THEN [d EXCEPT !.flying = TRUE] ELSE d

land(d) == IF d.kind = "SimulatedDrone" THEN [d EXCEPT !.flying = FALSE] ELSE d

\* get_state(): SimulatedDrone returns its location list
get_state(d) == d.location

\* get_state()['loc'][:] on the shadow tracker: get_state() is a list, and a list
\* subscripted with a str raises TypeError
get_state_loc(d) == [exc |-> "TypeError", val |-> get_state(d)]

\* takeoff() / land() return True on a SimulatedDrone, and on a TelloDrone when the
\* drone answered "ok" in time (ok)
command_result(d, ok) == d.kind = "SimulatedDrone" \/ ok

(***************************************************************************)
(* The source texts given to compile: every line of SourceLines, every     *)
(* sequence of at most MaxLines of its CoreLines, and a few longer routines.*)
(***************************************************************************)
MaxLines == 2

\* the number of instructions one run dispatches before the host stops
\* resuming it (programs may loop for ever)
MaxSteps == 6

SourceLines ==
    <<
      \* 1: (empty)
      <<>>,
      \* 2:   # note
      <<" ", " ", "#", " ", "n", "o", "t", "e">>,
      \* 3: L:
      <<"L", ":">>,
      \* 4: L: nop
      <<"L", ":", " ", "n", "o", "p">>,
      \* 5: NOP
      <<"N", "O", "P">>,
      \* 6: HALT
      <<"H", "A", "L", "T">>,
      \* 7: JUMP L
      <<"J", "U", "M", "P", " ", "L">>,
      \* 8: JUMP M
      <<"J", "U", "M", "P", " ", "M">>,
      \* 9: PUSH_RETURN L
      <<"P", "U", "S", "H", "_", "R", "E", "T", "U", "R", "N", " ", "L">>,
      \* 10: PUSH_RETURN M
      <<"P", "U", "S", "H", "_", "R", "E", "T", "U", "R", "N", " ", "M">>,
      \* 11: POP_RETURN
      <<"P", "O", "P", "_", "R", "E", "T", "U", "R", "N">>,
      \* 12: JUMP_RETURN
      <<"J", "U", "M", "P", "_", "R", "E", "T", "U", "R", "N">>,
      \* 13: PUSH_NUM 5
      <<"P", "U", "S", "H", "_", "N", "U", "M", " ", "5">>,
      \* 14: PUSH_NUM $R1
      <<"P", "U", "S", "H", "_", "N", "U", "M", " ", "$", "R", "1">>,
      \* 15: POP_NUM $R1
      <<"P", "O", "P", "_", "N", "U", "M", " ", "$", "R", "1">>,
      \* 16: POP_NUM $R16
      <<"P", "O", "P", "_", "N", "U", "M", " ", "$", "R", "1", "6">>,
      \* 17: PUSH_PIC $P1
      <<"P", "U", "S", "H", "_", "P", "I", "C", " ", "$", "P", "1">>,
      \* 18: PUSH_PIC 5
      <<"P", "U", "S", "H", "_", "P", "I", "C", " ", "5">>,
      \* 19: POP_PIC $P1
      <<"P", "O", "P", "_", "P", "I", "C", " ", "$", "P", "1">>,
      \* 20: TAKE_PIC $P1
      <<"T", "A", "K", "E", "_", "P", "I", "C", " ", "$", "P", "1">>,
      \* 21: TAKE_PIC $R1
      <<"T", "A", "K", "E", "_", "P", "I", "C", " ", "$", "R", "1">>,
      \* 22: STORE 2 $R1
      <<"S", "T", "O", "R", "E", " ", "2", " ", "$", "R", "1">>,
      \* 23: STORE 1.5 $R2
      <<"S", "T", "O", "R", "E", " ", "1", ".", "5", " ", "$", "R", "2">>,
      \* 24: COPY $R1 $R2
      <<"C", "O", "P", "Y", " ", "$", "R", "1", " ", "$", "R", "2">>,
      \* 25: COPY_PIC $P1 $P2
      <<"C", "O", "P", "Y", "_", "P", "I", "C", " ", "$", "P", "1", " ", "$", "P", "2">>,
      \* 26: BRANCH_EQ $R1 0 L
      <<"B", "R", "A", "N", "C", "H", "_", "E", "Q", " ", "$", "R", "1", " ", "0", " ",
        "L">>,
      \* 27: BRANCH_NE 1 0 M
      <<"B", "R", "A", "N", "C", "H", "_", "N", "E", " ", "1", " ", "0", " ", "M">>,
      \* 28: ADD 2 3 $R0
      <<"A", "D", "D", " ", "2", " ", "3", " ", "$", "R", "0">>,
      \* 29: DIV $R0 0 $R1
      <<"D", "I", "V", " ", "$", "R", "0", " ", "0", " ", "$", "R", "1">>,
      \* 30: TAKEOFF
      <<"T", "A", "K", "E", "O", "F", "F">>,
      \* 31: LAND
      <<"L", "A", "N", "D">>,
      \* 32: FORWARD 50
      <<"F", "O", "R", "W", "A", "R", "D", " ", "5", "0">>,
      \* 33: ROTATE_CW 90
      <<"R", "O", "T", "A", "T", "E", "_", "C", "W", " ", "9", "0">>,
      \* 34: DISPLAY $R0
      <<"D", "I", "S", "P", "L", "A", "Y", " ", "$", "R", "0">>,
      \* 35: DISPLAY "hi"
      <<"D", "I", "S", "P", "L", "A", "Y", " ", "\"", "h", "i", "\"">>,
      \* 36: DISPLAY $P1
      <<"D", "I", "S", "P", "L", "A", "Y", " ", "$", "P", "1">>,
      \* 37: LOAD_PIC "f" $P1
      <<"L", "O", "A", "D", "_", "P", "I", "C", " ", "\"", "f", "\"", " ", "$", "P",
        "1">>,
      \* 38: LOAD_PIC "f" $P9
      <<"L", "O", "A", "D", "_", "P", "I", "C", " ", "\"", "f", "\"", " ", "$", "P",
        "9">>,
      \* 39: DETECT_FACE $P1 1 $R2
      <<"D", "E", "T", "E", "C", "T", "_", "F", "A", "C", "E", " ", "$", "P", "1", " ",
        "1", " ", "$", "R", "2">>,
      \* 40: MATCH_FACE 1 2 $R0
      <<"M", "A", "T", "C", "H", "_", "F", "A", "C", "E", " ", "1", " ", "2", " ", "$",
        "R", "0">>,
      \* 41: NOP 5
      <<"N", "O", "P", " ", "5">>,
      \* 42: ADD 1 2 $R0 $R1
      <<"A", "D", "D", " ", "1", " ", "2", " ", "$", "R", "0", " ", "$", "R", "1">>,
      \* 43: $R
      <<"$", "R">>,
      \* 44: FOO
      <<"F", "O", "O">>,
      \* 45: STORE $R1 $R2
      <<"S", "T", "O", "R", "E", " ", "$", "R", "1", " ", "$", "R", "2">>
    >>

SeqsUpTo(S, n) == UNION {[1..k -> S] : k \in 0..n}

\* longer programs, by the numbers of their lines in SourceLines
Routines ==
    { \* L: nop / PUSH_RETURN L / POP_RETURN / JUMP_RETURN
      <<4, 9, 11, 12>>,
      \* L: nop / PUSH_RETURN L / PUSH_RETURN L / POP_RETURN
      <<4, 9, 9, 11>>,
      \* ADD 2 3 $R0 / DISPLAY $R0 / HALT
      <<28, 34, 6>>,
      \* STORE 2 $R1 / PUSH_NUM $R1 / POP_NUM $R1
      <<22, 14, 15>>,
      \* TAKEOFF / FORWARD 50 / ROTATE_CW 90 / FORWARD 50 / LAND
      <<30, 32, 33, 32, 31>>,
      \* LOAD_PIC "f" $P1 / DETECT_FACE $P1 1 $R2 / MATCH_FACE 1 2 $R0
      <<37, 39, 40>> }

\* the characters of a str, as `for char in line` meets them
chars(s) == [i \in 1..Len(s) |-> SubSeq(s, i, i)]

\* one text for each kind of token: NumReg, PicReg, IntNumber, FloatNumber,
\* Identifier, String, Command, Label
ArgumentTexts == {"$R1", "$P1", "5", "1.5", "M", "\"S\"", "NOP", "L:"}

\* the words of a line after the command, each after one space
RECURSIVE spaced(_)
spaced(words) ==
    IF words = <<>> THEN <<>>
    ELSE <<" ">> \o chars(words[1]) \o spaced(Tail(words))

\* every command of two or three arguments with every kind of token in every
\* argument position
ArgumentLines ==
    UNION {{chars(cmd) \o spaced(args) :
                cmd \in ARGS_DICT[n], args \in [1..n -> ArgumentTexts]} :
           n \in {2, 3}}

\* the longest line of TokenLines
MaxChars == 4

TokenAlphabet == {"$", "R", "P", "1", "a", "\"", " ", ":", ".", "+"}

\* every line of at most MaxChars characters of TokenAlphabet
TokenLines == SeqsUpTo(TokenAlphabet, MaxChars)

\* the line the tokenizer's self-test is run on
ExampleLine ==
    chars("MARK1: JUMP 12.3 -3.4 +3.14 MARK2 -13 +16 $R6 $P6 \"Hello, World!\"")

\* further programs, as written
Sources ==
    {<<"ADD 2 3 0", "DISPLAY $R0">>,
     <<"STORE 7 $R1", "DIV 6 0 $R1">>,
     <<"STORE 7 $R1", "DIV 6 0.0 $R1">>,
     <<"STORE 7 $R1", "DIV 6 $R0 $R1">>,
     <<"STORE 7 $R1", "DIV $R1 -0 $R1">>,
     <<"STORE 0.0 $R2", "DIV 1.5 $R2 $R1">>,
     <<"STORE 7 $R1", "DIV 6 4 $R1">>,
     <<"DIV 6 0 $R16">>,
     <<"DIV $R16 0 $R1">>,
     \* a register index outside its bank, in every position of every command
     <<"STORE 1 $R16">>, <<"STORE 7 $R1", "COPY $R1 $R16">>, <<"COPY $R16 $R1">>,
     <<"COPY_PIC $P8 $P1">>, <<"COPY_PIC $P1 $P8">>,
     <<"PUSH_NUM $R16">>, <<"PUSH_PIC $P8">>, <<"PUSH_PIC -1">>,
     <<"PUSH_NUM 1", "POP_NUM $R16">>, <<"POP_PIC $P8">>,
     <<"BRANCH_EQ $R16 1 L">>, <<"BRANCH_LT 1 $R16 L">>,
     <<"ADD $R16 1 $R1">>, <<"SUB 1 $R16 $R1">>, <<"MULT 1 2 $R16">>,
     <<"IDIV 1 0 $R16">>, <<"RDIV 1 0 $R16">>,
     <<"FORWARD $R16">>, <<"ROTATE_CW $R16">>,
     <<"DISPLAY $R16">>, <<"DISPLAY $P8">>, <<"TAKE_PIC $P8">>, <<"TAKE_PIC $R9">>,
     <<"LOAD_PIC \"f\" $P8">>,
     <<"DETECT_FACE $P8 1 $R2">>, <<"DETECT_FACE $P1 8 $R2">>, <<"DETECT_FACE $P1 1 $R16">>,
     <<"MATCH_FACE 8 1 $R0">>, <<"MATCH_FACE 1 8 $R0">>, <<"MATCH_FACE 1 2 $R16">>,
     \* movements by less and by more than a Tello accepts
     <<"FORWARD 5">>, <<"UP 501">>, <<"ROTATE_CW 0">>, <<"ROTATE_CCW 361">>,
     \* each branch on a smaller, a larger and an equal pair, to its own line
     <<"L: BRANCH_EQ 1 2 L">>, <<"L: BRANCH_EQ 2 1 L">>, <<"L: BRANCH_EQ 1 1 L">>,
     <<"L: BRANCH_NE 1 2 L">>, <<"L: BRANCH_NE 2 1 L">>, <<"L: BRANCH_NE 1 1 L">>,
     <<"L: BRANCH_GT 1 2 L">>, <<"L: BRANCH_GT 2 1 L">>, <<"L: BRANCH_GT 1 1 L">>,
     <<"L: BRANCH_LT 1 2 L">>, <<"L: BRANCH_LT 2 1 L">>, <<"L: BRANCH_LT 1 1 L">>,
     <<"L: BRANCH_GE 1 2 L">>, <<"L: BRANCH_GE 2 1 L">>, <<"L: BRANCH_GE 1 1 L">>,
     <<"L: BRANCH_LE 1 2 L">>, <<"L: BRANCH_LE 2 1 L">>, <<"L: BRANCH_LE 1 1 L">>,
     <<"L: BRANCH_EQ 1 1.0 L">>, <<"L: BRANCH_LT -1.5 -1 L">>,
     <<"STORE 1.5 $R1", "L: BRANCH_GE $R1 1.5 L">>,
     <<"STORE 2 $R1", "M: BRANCH_LT 1.5 $R1 M">>,
     <<"STORE 2 $R1", "M: BRANCH_NE $R1 $R0 M">>,
     <<"L: NOP", "JUMP L">>, <<"JUMP M", "M: HALT">>,
     \* pops after a PUSH_PIC
     <<"PUSH_PIC $P1", "POP_PIC $P1">>, <<"PUSH_PIC $P1", "POP_NUM $R1">>,
     \* floor division and modulo by zero
     <<"STORE 7 $R1", "IDIV 6 0 $R1">>, <<"STORE 7 $R1", "RDIV 6 $R0 $R1">>,
     <<"RDIV 6 0.0 $R1">>, <<"IDIV 7 2 $R1">>,
     \* a branch on a register that holds what PUSH_PIC pushed
     <<"PUSH_PIC $P1", "POP_NUM $R1", "L: BRANCH_LT $R1 0 L">>,
     <<"PUSH_PIC $P1", "POP_NUM $R1", "L: BRANCH_NE $R1 0 L">>,
     \* a sign with no digit after it
     <<"STORE + $R1">>, <<"ADD 1 +. $R1">>}

\* the texts compiled when Compile is pressed again: one that compiles, and one for
\* each way compile fails (TokenizerErrorException, ValidationErrorException,
\* IndexError on an empty line, KeyError on four arguments)
EditedTexts ==
    {<<chars("NOP")>>, <<chars("$R")>>, <<chars("STORE $R1 $R2")>>, <<chars("")>>,
     <<chars("ADD 1 2 $R0 $R1")>>}

\* the lines of SourceLines that longer texts are made of: the empty line,
\* labels, jumps, calls and returns, the numeric stack, STORE, a branch, ADD,
\* DIV, a movement, DISPLAY and HALT
CoreLines == {1, 3, 4, 6, 7, 9, 11, 12, 13, 15, 22, 26, 28, 29, 32, 34}

\* the source texts compile is given: every line of SourceLines as a text of one
\* line, every text of at most MaxLines of the CoreLines, the routines, the
\* further programs, and every line of ArgumentLines and TokenLines and the
\* example line as a text of one line
Programs ==
    {[k \in DOMAIN p |-> SourceLines[p[k]]] :
        p \in SeqsUpTo(DOMAIN SourceLines, 1) \cup SeqsUpTo(CoreLines, MaxLines)
                 \cup Routines}
    \cup {[k \in DOMAIN p |-> chars(p[k])] : p \in Sources}
    \cup {<<line>> : line \in ArgumentLines \cup TokenLines \cup {ExampleLine}}

(***************************************************************************)
(* State                                                                   *)
(***************************************************************************)
VARIABLES
    \* compile(lines): its argument, its locals, and how it ended
    lines, line_num, program, compile_pc, compile_exc,
    \* DroneVM: registers, stacks, vehicles, path; init_exc is the exception the
    \* constructor raised, reset_exc how the last call of reset ended
    num_reg, pic_reg, face_reg, return_reg,
    num_stack, pic_stack, return_stack,
    drone_tracking, drone, drone_path, running, init_exc, reset_exc,
    \* the generator run_program returns: where it stands (gen), its argument and
    \* local, the exception it raised, the values it printed or showed, and the
    \* number of instructions it has dispatched; yields counts its `yield None`
    gen, simulated, program_counter, run_exc, displayed, executed, yields,
    \* DroneASMInterface: stop_run; the state of the Run button; self.program,
    \* "None" or "program" (what compile returned, the value of program)
    stop_run, run_btn, self_program,
    \* TelloDrone: the object, the thread calling it, the drone's answers
    tello, caller, network

compile_vars == <<lines, line_num, program, compile_pc, compile_exc>>

reg_vars == <<num_reg, pic_reg, face_reg, return_reg>>

stack_vars == <<num_stack, pic_stack, return_stack>>

vm_vars ==
    <<reg_vars, stack_vars, drone_tracking, drone, drone_path, running, init_exc, reset_exc>>

run_vars == <<gen, simulated, program_counter, run_exc, displayed, executed, yields>>

vars ==
    <<compile_vars, vm_vars, run_vars, stop_run, run_btn, self_program, tello, caller, network>>

CompileInit ==
    /\ lines \in Programs
    /\ line_num = 0
    /\ program = NewProgram
    /\ compile_pc = "loop"
    /\ compile_exc = [exc |-> "none", line |-> 0, message |-> ""]
    /\ run_btn = "disabled"
    /\ self_program = "None"

\* one iteration of `for line in lines`: the except clauses prefix the message of a
\* TokenizerErrorException or ValidationErrorException with the line number and
\* re-raise it; any other exception leaves compile as it was raised.
\* DroneASMInterface.compile catches the two and, self.program being None, disables
\* the Run button; any other exception ends the handler where it was raised.
compile_line ==
    /\ compile_pc = "loop"
    /\ line_num < Len(lines)
    /\ \E tokens \in {tokenize(preprocess(lines[line_num + 1]))} :
       \E valid \in {validate_line(tokens.tokens)} :
          /\ line_num' = line_num + 1
          /\ IF tokens.exc # "none"
             THEN /\ compile_pc' = "raised"
                  /\ compile_exc' = [exc |-> tokens.exc, line |-> line_num + 1,
                                     message |-> tokens.message]
                  /\ run_btn' = "disabled"
                  /\ UNCHANGED program
             ELSE IF valid.exc = "ValidationErrorException"
             THEN /\ compile_pc' = "raised"
                  /\ compile_exc' = [exc |-> valid.exc, line |-> line_num + 1,
                                     message |-> valid.message]
                  /\ run_btn' = "disabled"
                  /\ UNCHANGED program
             ELSE IF valid.exc # "none"
             THEN /\ compile_pc' = "raised"
                  /\ compile_exc' = [exc |-> valid.exc, line |-> 0,
                                     message |-> valid.message]
                  /\ UNCHANGED <<program, run_btn>>
             ELSE /\ program' = add_line(program, tokens.tokens)
                  /\ UNCHANGED <<compile_pc, compile_exc, run_btn>>
    /\ UNCHANGED <<tello, caller, network, lines, vm_vars, run_vars, stop_run, self_program>>

\* the loop is exhausted: return program.  DroneASMInterface.compile binds it to
\* self.program and enables the Run button.
compile_return ==
    /\ compile_pc = "loop"
    /\ line_num = Len(lines)
    /\ compile_pc' = "returned"
    /\ self_program' = "program"
    /\ run_btn' = "active"
    /\ UNCHANGED <<tello, caller, network, lines, line_num, program, compile_exc, vm_vars,
                   run_vars, stop_run>>

\* the Compile button is pressed again, on an edited text, while the VM holds
\* no generator (before a run, or after reset dropped it): self.program = None,
\* then compile(prog_txt) starts
host_compile ==
    /\ compile_pc \in {"returned", "raised"}
    /\ gen = "none"
    /\ lines' \in EditedTexts
    /\ line_num' = 0
    /\ program' = NewProgram
    /\ compile_pc' = "loop"
    /\ compile_exc' = [exc |-> "none", line |-> 0, message |-> ""]
    /\ self_program' = "None"
    /\ UNCHANGED <<tello, caller, network, vm_vars, run_vars, stop_run, run_btn>>

(***************************************************************************)
(* drone_virtual_machine.py: DroneVM                                       *)
(***************************************************************************)
NUMERICAL_REGISTERS == 16

PICTURE_REGISTERS == 8

FACE_REGISTERS == 8

\* DroneVM.__init__: the registers, stacks and vehicles are bound, then the
\* evaluation of the path's seed raises; self.running is bound by run_program
VmInit ==
    /\ num_reg = [i \in 0..(NUMERICAL_REGISTERS - 1) |-> IntV(0)]
    /\ pic_reg = [i \in 0..(PICTURE_REGISTERS - 1) |-> NoneV]
    /\ face_reg = [i \in 0..(FACE_REGISTERS - 1) |-> <<"None", "None">>]
    /\ return_reg = 0
    /\ num_stack = <<>>
    /\ pic_stack = <<>>
    /\ return_stack = <<>>
    /\ drone_tracking = SimulatedDrone
    /\ drone = SimulatedDrone
    /\ LET seed == get_state_loc(SimulatedDrone)
       IN /\ drone_path = IF seed.exc = "none" THEN <<seed.val>> ELSE <<>>
          /\ init_exc = seed.exc
    /\ reset_exc = "not called"
    /\ running = FALSE

\* no generator yet
RunInit ==
    /\ gen = "none"
    /\ simulated = TRUE
    /\ program_counter = 0
    /\ run_exc = NoException
    /\ displayed = <<>>
    /\ executed = 0
    /\ yields = 0
    /\ stop_run = FALSE

SoftwareError(message) == Raised("RuntimeSoftwareErrorException", message)

HardwareError(message) == Raised("RuntimeHardwareErrorException", message)

NoRegister == SoftwareError("Attempted use of non-existent register.")

\* what evaluating an operand gives: the exception raised (NoException when none),
\* whether self.drone.shutdown() was called before raising it, and the value
Evaluated(val) == [exc |-> NoException, shutdown |-> FALSE, val |-> val]

Faulted(exc, shut) == [exc |-> exc, shutdown |-> shut, val |-> NoneV]

\* int(token.value) as a register index
converted(r) ==
    IF r.exc = "none" THEN [exc |-> NoException, shutdown |-> FALSE, val |-> r.val]
    ELSE [exc |-> Raised("ValueError", "invalid literal"), shutdown |-> FALSE, val |-> r.val]

index(token) == converted(int(token.value))

\* the literal branches of an operand: IntNumber -> int, FloatNumber -> float, any
\* other token type is "Unknown value type."
int_literal(r) == [converted(r) EXCEPT !.val = IF r.exc = "none" THEN IntV(@) ELSE NoneV]

literal(token) ==
    IF token.token_type = "IntNumber" THEN int_literal(int(token.value))
    ELSE IF token.token_type = "FloatNumber" THEN converted(float(token.value))
    ELSE Faulted(SoftwareError("Unknown value type."), TRUE)

\* an operand read at its index modulo the size of the bank, with no test
register_modulo(r, regs) ==
    IF r.exc # NoException THEN Faulted(r.exc, FALSE)
    ELSE Evaluated(regs[r.val % NUMERICAL_REGISTERS])

\* an operand that may be a NumReg: the register's value when the index is in range
register(r, regs) ==
    IF r.exc # NoException THEN Faulted(r.exc, FALSE)
    ELSE IF 0 <= r.val /\ r.val < NUMERICAL_REGISTERS THEN Evaluated(regs[r.val])
    ELSE Faulted(NoRegister, TRUE)

resolve(token, regs) ==
    IF token.token_type = "NumReg" THEN register(index(token), regs) ELSE literal(token)

\* current_line = program.get_line(program_counter); arg(k) is current_line[k]
current_line == get_line(program, program_counter)

arg(k) == current_line[k + 1]

\* the host resumes the generator (the for loop of DroneASMInterface.run_program
\* asks for the next item unless it left the loop) and the instruction at
\* program_counter is one of cmds
Fetch(cmds) ==
    /\ gen = "suspended"
    /\ ~stop_run
    /\ self_program # "None"
    /\ executed < MaxSteps
    /\ program_counter < line_count(program)
    /\ join(current_line[1].value) \in cmds

\* the instruction completed: program_counter is set, `while self.running` is
\* tested, and the generator yields again or leaves the loop, shuts the vehicle
\* down and returns
Continue(pc, d) ==
    /\ program_counter' = pc
    /\ IF running THEN gen' = "suspended" /\ yields' = yields + 1 /\ drone' = d
       ELSE gen' = "returned" /\ UNCHANGED yields /\ drone' = shutdown(d)
    /\ executed' = executed + 1
    /\ UNCHANGED <<tello, caller, network, compile_vars, running, init_exc, reset_exc, simulated,
                   run_exc, stop_run, run_btn, self_program>>

\* the instruction raised exc with the vehicle left as d
Raise(exc, d) ==
    /\ gen' = "raised"
    /\ run_exc' = exc
    /\ drone' = d
    /\ executed' = executed + 1
    /\ UNCHANGED <<tello, caller, network, compile_vars, running, init_exc, reset_exc, simulated,
                   program_counter, yields, stop_run, run_btn, self_program>>

\* self.drone.shutdown() then raise
ShutdownRaise(exc) == Raise(exc, shutdown(drone))

\* an operand's evaluation raised
Fail(r) == Raise(r.exc, IF r.shutdown THEN shutdown(drone) ELSE drone)

in_bank(i, size) == 0 <= i /\ i < size

(***************************************************************************)
(* The host and the generator protocol                                     *)
(***************************************************************************)
\* DroneASMInterface.run_program: stop_run is cleared and run_program is called,
\* which creates the generator and runs none of its code
host_run_program ==
    /\ run_btn = "active"
    /\ compile_pc # "loop"
    /\ gen = "none"
    /\ gen' = "created"
    /\ simulated' \in BOOLEAN
    /\ stop_run' = FALSE
    /\ UNCHANGED <<tello, caller, network, compile_vars, vm_vars, program_counter, run_exc,
                   displayed, executed, yields, run_btn, self_program>>

\* the first next(): up to the first yield
run_program_start ==
    /\ gen = "created"
    /\ program_counter' = 0
    /\ running' = TRUE
    /\ IF simulated /\ drone.kind = "TelloDrone"
       THEN \* self.drone is the TelloDrone of the run before, whose connect() has
            \* started receive_thread: Thread.start() raises RuntimeError
            /\ gen' = "raised"
            /\ run_exc' = Raised("RuntimeError", "threads can only be started once")
            /\ UNCHANGED <<drone, yields>>
       ELSE \E ok \in BOOLEAN :
               LET d == IF ~simulated THEN TelloDrone ELSE drone
               IN IF ~connect_result(d, ok)
                  THEN /\ drone' = shutdown(connect(d, ok))
                       /\ gen' = "raised"
                       /\ run_exc' = HardwareError("Unable to connect to drone.")
                       /\ UNCHANGED yields
                  ELSE /\ drone' = connect(d, ok)
                       /\ gen' = "suspended"
                       /\ yields' = yields + 1
                       /\ UNCHANGED run_exc
    /\ UNCHANGED <<tello, caller, network, compile_vars, reg_vars, stack_vars, drone_tracking,
                   drone_path, init_exc, reset_exc, simulated, displayed, executed, stop_run,
                   run_btn, self_program>>

\* DroneVM.run_program called once more on the same DroneVM with no reset in
\* between, after a live run is over: the call creates a new generator, this time
\* with simulated = True, and runs none of its code
run_program_again ==
    /\ gen \in {"returned", "raised", "closed"}
    /\ ~simulated
    /\ gen' = "created"
    /\ simulated' = TRUE
    /\ program_counter' = 0
    /\ run_exc' = NoException
    /\ displayed' = <<>>
    /\ executed' = 0
    /\ yields' = 0
    /\ UNCHANGED <<tello, caller, network, compile_vars, vm_vars, stop_run, run_btn,
                   self_program>>

\* resumed with program_counter past the last line: running is cleared, the loop
\* is left, the vehicle shut down, drone_path returned
run_program_end ==
    /\ gen = "suspended"
    /\ ~stop_run
    /\ self_program # "None"
    /\ program_counter >= line_count(program)
    /\ running' = FALSE
    /\ drone' = shutdown(drone)
    /\ gen' = "returned"
    /\ UNCHANGED <<tello, caller, network, compile_vars, reg_vars, stack_vars, drone_tracking,
                   drone_path, init_exc, reset_exc, simulated, program_counter, run_exc,
                   displayed, executed, yields, stop_run, run_btn, self_program>>

\* resumed with None for a program: program.line_count() raises AttributeError
run_program_none ==
    /\ gen = "suspended"
    /\ ~stop_run
    /\ self_program = "None"
    /\ gen' = "raised"
    /\ run_exc' = Raised("AttributeError", "line_count")
    /\ UNCHANGED <<tello, caller, network, compile_vars, vm_vars, simulated, program_counter,
                   displayed, executed, yields, stop_run, run_btn, self_program>>

\* DroneASMInterface.stop_prog, the Halt button's callback: it runs inside
\* root.update(), which the host calls with the generator suspended
stop_prog ==
    /\ gen = "suspended"
    /\ ~stop_run
    /\ stop_run' = TRUE
    /\ running' = FALSE
    /\ UNCHANGED <<tello, caller, network, compile_vars, reg_vars, stack_vars, drone_tracking,
                   drone, drone_path, init_exc, reset_exc, run_vars, run_btn, self_program>>

\* `if self.stop_run: break`: the host leaves the for loop and drops the
\* generator, which is closed at its yield: GeneratorExit ends it there, and no
\* statement after the yield is run
host_break ==
    /\ gen = "suspended"
    /\ stop_run
    /\ gen' = "closed"
    /\ UNCHANGED <<tello, caller, network, compile_vars, vm_vars, simulated, program_counter,
                   run_exc, displayed, executed, yields, stop_run, run_btn, self_program>>

\* DroneVM.reset, which DroneASMInterface.run_program calls before a run, when
\* no generator is alive: registers, stacks and vehicles are bound anew, then the
\* evaluation of the path's seed raises, before drone_path and running are
\* bound.  The generator of the run before is gone, and what the next run
\* prints is recorded anew.
reset ==
    /\ run_btn = "active"
    /\ compile_pc # "loop"
    /\ gen \in {"none", "returned", "raised", "closed"}
    /\ num_reg' = [i \in 0..(NUMERICAL_REGISTERS - 1) |-> IntV(0)]
    /\ pic_reg' = [i \in 0..(PICTURE_REGISTERS - 1) |-> NoneV]
    /\ face_reg' = [i \in 0..(FACE_REGISTERS - 1) |-> <<"None", "None">>]
    /\ return_reg' = 0
    /\ num_stack' = <<>>
    /\ pic_stack' = <<>>
    /\ return_stack' = <<>>
    /\ drone_tracking' = SimulatedDrone
    /\ drone' = SimulatedDrone
    /\ LET seed == get_state_loc(SimulatedDrone)
       IN IF seed.exc = "none"
          THEN /\ drone_path' = <<seed.val>>
               /\ running' = FALSE
               /\ reset_exc' = "none"
          ELSE /\ reset_exc' = seed.exc
               /\ UNCHANGED <<drone_path, running>>
    /\ gen' = "none"
    /\ program_counter' = 0
    /\ run_exc' = NoException
    /\ displayed' = <<>>
    /\ executed' = 0
    /\ yields' = 0
    /\ UNCHANGED <<tello, caller, network, compile_vars, init_exc, simulated, stop_run, run_btn,
                   self_program>>

(***************************************************************************)
(* run_program: one action per case of the match statement; the six branch,*)
(* the six arithmetic and the eight movement cases, which differ in one    *)
(* operator or one method, share an action each.                           *)
(***************************************************************************)
data_vars == <<reg_vars, stack_vars, drone_tracking, drone_path, displayed>>

\* a NOP that stays on its line
exec_NOP_stay ==
    /\ Fetch({"NOP"})
    /\ Continue(program_counter, drone)
    /\ UNCHANGED data_vars

exec_NOP ==
    /\ Fetch({"NOP"})
    /\ Continue(program_counter + 1, drone)
    /\ UNCHANGED data_vars

\* self.running = False; continue: the loop ends without program_counter += 1
exec_HALT ==
    /\ Fetch({"HALT"})
    /\ running' = FALSE
    /\ gen' = "returned"
    /\ drone' = shutdown(drone)
    /\ executed' = executed + 1
    /\ UNCHANGED <<tello, caller, network, compile_vars, data_vars, init_exc, reset_exc,
                   simulated, program_counter, run_exc, yields, stop_run, run_btn, self_program>>

exec_STORE ==
    /\ Fetch({"STORE"})
    /\ \E val \in {literal(arg(1))} :
       \E reg \in {index(arg(2))} :
          IF val.exc # NoException
          THEN Fail(val) /\ UNCHANGED num_reg
          ELSE IF reg.exc # NoException
          THEN Fail(reg) /\ UNCHANGED num_reg
          ELSE IF in_bank(reg.val, NUMERICAL_REGISTERS)
          THEN /\ num_reg' = [num_reg EXCEPT ![reg.val] = val.val]
               /\ Continue(program_counter + 1, drone)
          ELSE ShutdownRaise(NoRegister) /\ UNCHANGED num_reg
    /\ UNCHANGED <<pic_reg, face_reg, return_reg, stack_vars, drone_tracking, drone_path,
                   displayed>>

exec_COPY ==
    /\ Fetch({"COPY"})
    /\ \E reg1 \in {index(arg(1))} :
       \E reg2 \in {index(arg(2))} :
          IF reg1.exc # NoException
          THEN Fail(reg1) /\ UNCHANGED num_reg
          ELSE IF reg2.exc # NoException
          THEN Fail(reg2) /\ UNCHANGED num_reg
          ELSE IF in_bank(reg1.val, NUMERICAL_REGISTERS)
                  /\ in_bank(reg2.val, NUMERICAL_REGISTERS)
          THEN /\ num_reg' = [num_reg EXCEPT ![reg2.val] = num_reg[reg1.val]]
               /\ Continue(program_counter + 1, drone)
          ELSE ShutdownRaise(NoRegister) /\ UNCHANGED num_reg
    /\ UNCHANGED <<pic_reg, face_reg, return_reg, stack_vars, drone_tracking, drone_path,
                   displayed>>

exec_COPY_PIC ==
    /\ Fetch({"COPY_PIC"})
    /\ \E reg1 \in {index(arg(1))} :
       \E reg2 \in {index(arg(2))} :
          IF reg1.exc # NoException
          THEN Fail(reg1) /\ UNCHANGED pic_reg
          ELSE IF reg2.exc # NoException
          THEN Fail(reg2) /\ UNCHANGED pic_reg
          ELSE IF in_bank(reg1.val, PICTURE_REGISTERS)
                  /\ in_bank(reg2.val, PICTURE_REGISTERS)
          THEN /\ pic_reg' = [pic_reg EXCEPT ![reg2.val] = pic_reg[reg1.val]]
               /\ Continue(program_counter + 1, drone)
          ELSE ShutdownRaise(NoRegister) /\ UNCHANGED pic_reg
    /\ UNCHANGED <<num_reg, face_reg, return_reg, stack_vars, drone_tracking, drone_path,
                   displayed>>

exec_PUSH_NUM ==
    /\ Fetch({"PUSH_NUM"})
    /\ \E val \in {resolve(arg(1), num_reg)} :
          IF val.exc # NoException
          THEN Fail(val) /\ UNCHANGED num_stack
          ELSE /\ num_stack' = Append(num_stack, val.val)
               /\ Continue(program_counter + 1, drone)
    /\ UNCHANGED <<reg_vars, pic_stack, return_stack, drone_tracking, drone_path, displayed>>

\* program.label_lookup raises LabelNotFoundException, which nothing catches
exec_PUSH_RETURN ==
    /\ Fetch({"PUSH_RETURN"})
    /\ \E line_num_ \in {label_lookup(program, join(arg(1).value))} :
          IF line_num_.exc # "none"
          THEN Raise(Raised(line_num_.exc, "Cannot find label"), drone)
               /\ UNCHANGED return_stack
          ELSE /\ return_stack' = Append(return_stack, line_num_.val)
               /\ Continue(program_counter + 1, drone)
    /\ UNCHANGED <<reg_vars, num_stack, pic_stack, drone_tracking, drone_path, displayed>>

\* the picture is appended to num_stack
\* a PUSH_PIC that pushes onto the picture stack
exec_PUSH_PIC_pic ==
    /\ Fetch({"PUSH_PIC"})
    /\ \E reg \in {index(arg(1))} :
          IF reg.exc # NoException
          THEN Fail(reg) /\ UNCHANGED pic_stack
          ELSE IF in_bank(reg.val, PICTURE_REGISTERS)
          THEN /\ pic_stack' = Append(pic_stack, pic_reg[reg.val])
               /\ Continue(program_counter + 1, drone)
          ELSE ShutdownRaise(NoRegister) /\ UNCHANGED pic_stack
    /\ UNCHANGED <<reg_vars, num_stack, return_stack, drone_tracking, drone_path, displayed>>

exec_PUSH_PIC ==
    /\ Fetch({"PUSH_PIC"})
    /\ \E reg \in {index(arg(1))} :
          IF reg.exc # NoException
          THEN Fail(reg) /\ UNCHANGED num_stack
          ELSE IF in_bank(reg.val, PICTURE_REGISTERS)
          THEN /\ num_stack' = Append(num_stack, pic_reg[reg.val])
               /\ Continue(program_counter + 1, drone)
          ELSE ShutdownRaise(NoRegister) /\ UNCHANGED num_stack
    /\ UNCHANGED <<reg_vars, pic_stack, return_stack, drone_tracking, drone_path, displayed>>

\* list.pop() of an empty list raises IndexError, which nothing catches
exec_POP_NUM ==
    /\ Fetch({"POP_NUM"})
    /\ \E reg \in {index(arg(1))} :
          IF reg.exc # NoException
          THEN Fail(reg) /\ UNCHANGED <<num_reg, num_stack>>
          ELSE IF ~in_bank(reg.val, NUMERICAL_REGISTERS)
          THEN ShutdownRaise(NoRegister) /\ UNCHANGED <<num_reg, num_stack>>
          ELSE IF num_stack = <<>>
          THEN Raise(Raised("IndexError", "pop from empty list"), drone)
               /\ UNCHANGED <<num_reg, num_stack>>
          ELSE /\ num_reg' = [num_reg EXCEPT ![reg.val] = num_stack[Len(num_stack)]]
               /\ num_stack' = SubSeq(num_stack, 1, Len(num_stack) - 1)
               /\ Continue(program_counter + 1, drone)
    /\ UNCHANGED <<pic_reg, face_reg, return_reg, pic_stack, return_stack, drone_tracking,
                   drone_path, displayed>>

exec_POP_PIC ==
    /\ Fetch({"POP_PIC"})
    /\ \E reg \in {index(arg(1))} :
          IF reg.exc # NoException
          THEN Fail(reg) /\ UNCHANGED <<pic_reg, pic_stack>>
          ELSE IF ~in_bank(reg.val, PICTURE_REGISTERS)
          THEN ShutdownRaise(NoRegister) /\ UNCHANGED <<pic_reg, pic_stack>>
          ELSE IF pic_stack = <<>>
          THEN Raise(Raised("IndexError", "pop from empty list"), drone)
               /\ UNCHANGED <<pic_reg, pic_stack>>
          ELSE /\ pic_reg' = [pic_reg EXCEPT ![reg.val] = pic_stack[Len(pic_stack)]]
               /\ pic_stack' = SubSeq(pic_stack, 1, Len(pic_stack) - 1)
               /\ Continue(program_counter + 1, drone)
    /\ UNCHANGED <<num_reg, face_reg, return_reg, num_stack, return_stack, drone_tracking,
                   drone_path, displayed>>

\* the commands the match statement has a case for.  The second `case "POP_NUM":`
\* (self.return_reg = self.return_stack.pop()) comes after the first one, which
\* matches every POP_NUM: it is never selected, and POP_RETURN has no case.
MATCHED_COMMANDS ==
    {"NOP", "HALT", "STORE", "COPY", "COPY_PIC", "PUSH_NUM", "PUSH_RETURN", "PUSH_PIC",
     "POP_NUM", "POP_PIC", "BRANCH_EQ", "BRANCH_NE", "BRANCH_GT", "BRANCH_LT", "BRANCH_GE",
     "BRANCH_LE", "JUMP", "JUMP_RETURN", "ADD", "SUB", "MULT", "DIV", "IDIV", "RDIV",
     "TAKEOFF", "LAND", "FORWARD", "BACKWARD", "LEFT", "RIGHT", "UP", "DOWN", "ROTATE_CW",
     "ROTATE_CCW", "DISPLAY", "TAKE_PIC", "LOAD_PIC", "DETECT_FACE", "MATCH_FACE"}

\* case _: shut the vehicle down and raise "Unknown command."
exec_default ==
    /\ Fetch(COMMAND_LIST \ MATCHED_COMMANDS)
    /\ ShutdownRaise(SoftwareError("Unknown command."))
    /\ UNCHANGED data_vars

\* val1 <op> val2 as the if statement evaluates it: [exc, val].  None compares
\* equal to None only and has no order; a comparison with an image is an array,
\* whose truth value is a ValueError.
compare(cmd, a, b) ==
    LET holds == CASE cmd = "BRANCH_EQ" -> num_eq(a, b)
                   [] cmd = "BRANCH_NE" -> ~num_eq(a, b)
                   [] cmd = "BRANCH_GT" -> num_lt(b, a)
                   [] cmd = "BRANCH_LT" -> num_lt(a, b)
                   [] cmd = "BRANCH_GE" -> ~num_lt(a, b)
                   [] cmd = "BRANCH_LE" -> ~num_lt(b, a)
    IN IF is_number(a) /\ is_number(b) THEN [exc |-> "none", val |-> holds]
       ELSE IF a.t = "img" \/ b.t = "img" THEN [exc |-> "ValueError", val |-> FALSE]
       ELSE IF cmd = "BRANCH_EQ" THEN [exc |-> "none", val |-> a.t = b.t]
       ELSE IF cmd = "BRANCH_NE" THEN [exc |-> "none", val |-> a.t # b.t]
       ELSE [exc |-> "TypeError", val |-> FALSE]

BRANCHES == {"BRANCH_EQ", "BRANCH_NE", "BRANCH_GT", "BRANCH_LT", "BRANCH_GE", "BRANCH_LE"}

exec_BRANCH ==
    /\ Fetch(BRANCHES)
    /\ LET cmd == join(current_line[1].value)
       IN \E val1 \in {resolve(arg(1), num_reg)} :
          \E val2 \in {resolve(arg(2), num_reg)} :
          \E test \in {compare(cmd, val1.val, val2.val)} :
          \E target \in {label_lookup(program, join(arg(3).value))} :
          IF val1.exc # NoException THEN Fail(val1)
          ELSE IF val2.exc # NoException THEN Fail(val2)
          ELSE IF test.exc # "none" THEN Raise(Raised(test.exc, ""), drone)
          ELSE IF ~test.val THEN Continue(program_counter + 1, drone)
          ELSE IF target.exc # "none"
               THEN Raise(Raised(target.exc, "Cannot find label"), drone)
          ELSE Continue(target.val, drone)
    /\ UNCHANGED data_vars

\* a JUMP that lands past the end of the program
exec_JUMP_past ==
    /\ Fetch({"JUMP"})
    /\ Continue(line_count(program) + 1, drone)
    /\ UNCHANGED data_vars

\* a JUMP that goes on with the next line
exec_JUMP_next ==
    /\ Fetch({"JUMP"})
    /\ Continue(program_counter + 1, drone)
    /\ UNCHANGED data_vars

exec_JUMP ==
    /\ Fetch({"JUMP"})
    /\ \E target \in {label_lookup(program, join(arg(1).value))} :
          IF target.exc # "none"
          THEN Raise(Raised(target.exc, "Cannot find label"), drone)
          ELSE Continue(target.val, drone)
    /\ UNCHANGED data_vars

exec_JUMP_RETURN ==
    /\ Fetch({"JUMP_RETURN"})
    /\ Continue(return_reg, drone)
    /\ UNCHANGED data_vars

\* the six operators as Python applies them, with no test of the divisor
arith_unchecked(cmd, a, b) ==
    IF a.t = "None" \/ b.t = "None"
    THEN Faulted(Raised("TypeError", "unsupported operand type(s)"), FALSE)
    ELSE IF a.t = "img" \/ b.t = "img" THEN Evaluated(ImgV)
    ELSE IF cmd \in {"DIV", "IDIV", "RDIV"} /\ b.n = 0
    THEN Faulted(Raised("ZeroDivisionError", "division by zero"), FALSE)
    ELSE Evaluated(CASE cmd = "ADD" -> num_add(a, b)
                     [] cmd = "SUB" -> num_sub(a, b)
                     [] cmd = "MULT" -> num_mul(a, b)
                     [] cmd = "DIV" -> num_truediv(a, b)
                     [] cmd = "IDIV" -> num_floordiv(a, b)
                     [] cmd = "RDIV" -> num_mod(a, b))

\* val1 <op> val2 as the arithmetic cases compute it: [exc, shutdown, val].  Only
\* DIV tests val2 != 0 first; // and % by zero raise ZeroDivisionError.  None is
\* no operand (TypeError); an image operand gives an image.
arith(cmd, a, b) ==
    LET zero == is_number(b) /\ b.n = 0
    IN IF cmd = "DIV" /\ b.t = "img"
       THEN Faulted(Raised("ValueError", "truth value of an array"), FALSE)
       ELSE IF cmd = "DIV" /\ zero
       THEN Faulted(SoftwareError("Attempted to divide by zero."), TRUE)
       ELSE IF a.t = "None" \/ b.t = "None"
       THEN Faulted(Raised("TypeError", "unsupported operand type(s)"), FALSE)
       ELSE IF a.t = "img" \/ b.t = "img" THEN Evaluated(ImgV)
       ELSE IF cmd \in {"IDIV", "RDIV"} /\ zero
       THEN Faulted(Raised("ZeroDivisionError", "division by zero"), FALSE)
       ELSE Evaluated(CASE cmd = "ADD" -> num_add(a, b)
                        [] cmd = "SUB" -> num_sub(a, b)
                        [] cmd = "MULT" -> num_mul(a, b)
                        [] cmd = "DIV" -> num_truediv(a, b)
                        [] cmd = "IDIV" -> num_floordiv(a, b)
                        [] cmd = "RDIV" -> num_mod(a, b))

ARITHMETIC == {"ADD", "SUB", "MULT", "DIV", "IDIV", "RDIV"}

exec_ARITH ==
    /\ Fetch(ARITHMETIC)
    /\ LET cmd == join(current_line[1].value)
       IN \E val1 \in {resolve(arg(1), num_reg)} :
          \E val2 \in {resolve(arg(2), num_reg)} :
          \E store_reg \in {index(arg(3))} :
          \E res \in {arith(cmd, val1.val, val2.val)} :
          IF val1.exc # NoException THEN Fail(val1) /\ UNCHANGED num_reg
          ELSE IF val2.exc # NoException THEN Fail(val2) /\ UNCHANGED num_reg
          ELSE IF store_reg.exc # NoException THEN Fail(store_reg) /\ UNCHANGED num_reg
          ELSE IF ~in_bank(store_reg.val, NUMERICAL_REGISTERS)
          THEN ShutdownRaise(NoRegister) /\ UNCHANGED num_reg
          ELSE IF res.exc # NoException THEN Fail(res) /\ UNCHANGED num_reg
          ELSE /\ num_reg' = [num_reg EXCEPT ![store_reg.val] = res.val]
               /\ Continue(program_counter + 1, drone)
    /\ UNCHANGED <<pic_reg, face_reg, return_reg, stack_vars, drone_tracking, drone_path,
                   displayed>>

Maneuver == HardwareError("Could not complete maneuver")

exec_TAKEOFF ==
    /\ Fetch({"TAKEOFF"})
    /\ \E ok \in BOOLEAN :
          IF ~command_result(drone, ok) THEN ShutdownRaise(Maneuver)
          ELSE Continue(program_counter + 1, takeoff(drone))
    /\ UNCHANGED data_vars

exec_LAND ==
    /\ Fetch({"LAND"})
    /\ \E ok \in BOOLEAN :
          IF ~command_result(drone, ok) THEN ShutdownRaise(Maneuver)
          ELSE Continue(program_counter + 1, land(drone))
    /\ UNCHANGED data_vars

MOVEMENTS == {"FORWARD", "BACKWARD", "LEFT", "RIGHT", "UP", "DOWN", "ROTATE_CW", "ROTATE_CCW"}

\* the operand is resolved and truncated by int(); the vehicle moves or refuses;
\* after a move the shadow tracker moves too, and the point to append is
\* evaluated, get_state()['loc'][:], before drone_path.append is called
exec_MOVE ==
    /\ Fetch(MOVEMENTS)
    /\ LET cmd == join(current_line[1].value)
       IN \E val \in {resolve(arg(1), num_reg)} :
          \E dist \in {trunc(val.val)} :
          \E tracked \in {move(drone_tracking, cmd, dist)} :
          \E point \in {get_state_loc(tracked)} :
          IF val.exc # NoException
          THEN Fail(val) /\ UNCHANGED <<drone_tracking, drone_path>>
          ELSE IF ~is_number(val.val)
          THEN Raise(Raised("TypeError", "int() argument"), drone)
               /\ UNCHANGED <<drone_tracking, drone_path>>
          ELSE \E ok \in BOOLEAN :
                  IF ~move_result(drone, cmd, dist, ok)
                  THEN ShutdownRaise(Maneuver) /\ UNCHANGED <<drone_tracking, drone_path>>
                  ELSE /\ drone_tracking' = tracked
                       /\ IF point.exc # "none"
                          THEN /\ Raise(Raised(point.exc, "list indices must be integers"),
                                        move(drone, cmd, dist))
                               /\ UNCHANGED drone_path
                          ELSE /\ drone_path' = Append(drone_path, point.val)
                               /\ Continue(program_counter + 1, move(drone, cmd, dist))
    /\ UNCHANGED <<reg_vars, stack_vars, displayed>>

Shown(kind, val, text) == [kind |-> kind, val |-> val, text |-> text]

\* print(val), print(str) or cv2.imshow; cv2.imshow of None raises cv2.error
exec_DISPLAY ==
    /\ Fetch({"DISPLAY"})
    /\ LET a == arg(1)
           show(x) == displayed' = Append(displayed, x)
                      /\ Continue(program_counter + 1, drone)
       IN \E reg \in {index(a)} :
          \E lit \in {literal(a)} :
          IF a.token_type = "NumReg"
          THEN IF reg.exc # NoException THEN Fail(reg) /\ UNCHANGED displayed
               ELSE IF in_bank(reg.val, NUMERICAL_REGISTERS)
               THEN show(Shown("print", num_reg[reg.val], ""))
               ELSE ShutdownRaise(NoRegister) /\ UNCHANGED displayed
          ELSE IF a.token_type = "PicReg"
          THEN IF reg.exc # NoException THEN Fail(reg) /\ UNCHANGED displayed
               ELSE IF ~in_bank(reg.val, PICTURE_REGISTERS)
               THEN ShutdownRaise(NoRegister) /\ UNCHANGED displayed
               ELSE IF pic_reg[reg.val].t # "img"
               THEN Raise(Raised("cv2.error", "imshow"), drone) /\ UNCHANGED displayed
               ELSE show(Shown("imshow", pic_reg[reg.val], ""))
          ELSE IF a.token_type \in {"IntNumber", "FloatNumber"}
          THEN IF lit.exc # NoException THEN Fail(lit) /\ UNCHANGED displayed
               ELSE show(Shown("print", lit.val, ""))
          ELSE IF a.token_type = "String"
          THEN show(Shown("print", NoneV, join(a.value)))
          ELSE ShutdownRaise(SoftwareError("Attempted display of unknown value."))
               /\ UNCHANGED displayed
    /\ UNCHANGED <<reg_vars, stack_vars, drone_tracking, drone_path>>

\* `while self.drone.last_frame is None: pass` waits for the video thread's first
\* frame; a SimulatedDrone has no attribute last_frame (AttributeError)
exec_TAKE_PIC ==
    /\ Fetch({"TAKE_PIC"})
    /\ \E reg \in {index(arg(1))} :
          IF reg.exc # NoException THEN Fail(reg) /\ UNCHANGED pic_reg
          ELSE IF ~in_bank(reg.val, PICTURE_REGISTERS)
          THEN ShutdownRaise(NoRegister) /\ UNCHANGED pic_reg
          ELSE IF drone.last_frame = "no attribute"
          THEN Raise(Raised("AttributeError", "last_frame"), drone) /\ UNCHANGED pic_reg
          ELSE /\ drone.last_frame # "None"
               /\ pic_reg' = [pic_reg EXCEPT ![reg.val] = ImgV]
               /\ Continue(program_counter + 1, drone)
    /\ UNCHANGED <<num_reg, face_reg, return_reg, stack_vars, drone_tracking, drone_path,
                   displayed>>

\* TelloDrone.__receive_video, the video thread: it runs while stream_active
receive_video ==
    /\ gen = "suspended"
    /\ drone.stream_active
    /\ drone.last_frame = "None"
    /\ drone' = [drone EXCEPT !.last_frame = "img"]
    /\ UNCHANGED <<tello, caller, network, compile_vars, reg_vars, stack_vars, drone_tracking,
                   drone_path, running, init_exc, reset_exc, run_vars, stop_run, run_btn,
                   self_program>>

\* cv2.imread gives an image, or None for a file it cannot read, or raises; both
\* raise statements of this case come without a shutdown
exec_LOAD_PIC ==
    /\ Fetch({"LOAD_PIC"})
    /\ \E reg \in {index(arg(2))} :
          IF reg.exc # NoException THEN Fail(reg) /\ UNCHANGED pic_reg
          ELSE IF ~in_bank(reg.val, PICTURE_REGISTERS)
          THEN Raise(NoRegister, drone) /\ UNCHANGED pic_reg
          ELSE \E read \in {"img", "None", "raise"} :
                  IF read = "raise"
                  THEN Raise(SoftwareError("Attempted open non-existent or non-image file."),
                             drone)
                       /\ UNCHANGED pic_reg
                  ELSE /\ pic_reg' = [pic_reg EXCEPT
                                          ![reg.val] = IF read = "img" THEN ImgV ELSE NoneV]
                       /\ Continue(program_counter + 1, drone)
    /\ UNCHANGED <<num_reg, face_reg, return_reg, stack_vars, drone_tracking, drone_path,
                   displayed>>

\* find_faces reads img.shape first (AttributeError on None); it finds a face or
\* none, and encode_face gives an encoding or None
exec_DETECT_FACE ==
    /\ Fetch({"DETECT_FACE"})
    /\ \E p_reg \in {index(arg(1))} :
       \E f_reg \in {index(arg(2))} :
       \E ret_reg \in {index(arg(3))} :
          IF p_reg.exc # NoException THEN Fail(p_reg) /\ UNCHANGED <<num_reg, face_reg>>
          ELSE IF f_reg.exc # NoException THEN Fail(f_reg) /\ UNCHANGED <<num_reg, face_reg>>
          ELSE IF ret_reg.exc # NoException
          THEN Fail(ret_reg) /\ UNCHANGED <<num_reg, face_reg>>
          ELSE IF \/ ~in_bank(p_reg.val, PICTURE_REGISTERS)
                  \/ ~in_bank(f_reg.val, FACE_REGISTERS)
                  \/ ~in_bank(ret_reg.val, NUMERICAL_REGISTERS)
          THEN Raise(NoRegister, drone) /\ UNCHANGED <<num_reg, face_reg>>
          ELSE IF pic_reg[p_reg.val].t # "img"
          THEN Raise(Raised("AttributeError", "shape"), drone)
               /\ UNCHANGED <<num_reg, face_reg>>
          ELSE \E found \in BOOLEAN, encoding \in {"encoding", "None"} :
                  /\ IF found
                     THEN /\ num_reg' = [num_reg EXCEPT ![ret_reg.val] = IntV(1)]
                          /\ face_reg' = [face_reg EXCEPT ![f_reg.val] = <<"face", encoding>>]
                     ELSE /\ num_reg' = [num_reg EXCEPT ![ret_reg.val] = IntV(0)]
                          /\ UNCHANGED face_reg
                  /\ Continue(program_counter + 1, drone)
    /\ UNCHANGED <<pic_reg, return_reg, stack_vars, drone_tracking, drone_path, displayed>>

\* the similarities face_similarity gives in the model: none and exact match
SIMILARITIES == {FloatV(0, 1), FloatV(1, 1)}

exec_MATCH_FACE ==
    /\ Fetch({"MATCH_FACE"})
    /\ \E f_reg1 \in {index(arg(1))} :
       \E f_reg2 \in {index(arg(2))} :
       \E ret_reg \in {index(arg(3))} :
          IF f_reg1.exc # NoException THEN Fail(f_reg1) /\ UNCHANGED num_reg
          ELSE IF f_reg2.exc # NoException THEN Fail(f_reg2) /\ UNCHANGED num_reg
          ELSE IF ret_reg.exc # NoException THEN Fail(ret_reg) /\ UNCHANGED num_reg
          ELSE IF \/ ~in_bank(f_reg1.val, FACE_REGISTERS)
                  \/ ~in_bank(f_reg2.val, FACE_REGISTERS)
                  \/ ~in_bank(ret_reg.val, NUMERICAL_REGISTERS)
          THEN Raise(NoRegister, drone) /\ UNCHANGED num_reg
          ELSE IF face_reg[f_reg1.val][2] = "None" \/ face_reg[f_reg2.val][2] = "None"
          THEN Raise(SoftwareError("Attempted to use empty face register."), drone)
               /\ UNCHANGED num_reg
          ELSE \E sim \in SIMILARITIES :
                  /\ num_reg' = [num_reg EXCEPT ![ret_reg.val] = sim]
                  /\ Continue(program_counter + 1, drone)
    /\ UNCHANGED <<pic_reg, face_reg, return_reg, stack_vars, drone_tracking, drone_path,
                   displayed>>

(***************************************************************************)
(* drone.py: the command channel of a TelloDrone.  tello holds the fields  *)
(* of the object, caller the thread that calls its methods (blocked in     *)
(* __send_cmd while caller.method is not "none"), and network what the     *)
(* drone did with each logged command: "sent" (not answered), "ok" or      *)
(* "error" (the answer is on its way), "delivered".  An entry of cmd_log   *)
(* is [msg, response] in the code; the model adds who sent it (by), which  *)
(* command the drone was answering with the stored response (from, 0 for   *)
(* none), and what __send_cmd returned for it (returned, returned_from).   *)
(***************************************************************************)
\* the number of commands one TelloDrone is sent
MaxCommands == 4

\* the attempts of __connect
ATTEMPTS == 5

\* TelloDrone.__init__
TelloInit ==
    /\ tello = [active |-> FALSE, connected |-> FALSE, flying |-> FALSE,
                stream_active |-> FALSE, state_thread |-> FALSE, closed |-> FALSE,
                cmd_log |-> <<>>]
    /\ caller = [method |-> "none", attempt |-> 0, phase |-> "constructed", ret |-> "none"]
    /\ network = <<>>

\* the first two statements of __send_cmd: the entry [msg, None] is appended and
\* the datagram sent
send_cmd(t, msg, by) ==
    [t EXCEPT !.cmd_log = Append(@, [msg |-> msg, response |-> "None", from |-> 0, by |-> by,
                                     returned |-> "waiting", returned_from |-> 0])]

\* connect(): the receive thread is started and __connect sends "command"
connect_call ==
    /\ caller.phase = "constructed"
    /\ tello' = send_cmd([tello EXCEPT !.active = TRUE], "command", "connect")
    /\ network' = Append(network, "sent")
    /\ caller' = [caller EXCEPT !.method = "connect", !.attempt = 1, !.phase = "connecting"]
    /\ UNCHANGED <<compile_vars, vm_vars, run_vars, stop_run, run_btn, self_program>>

\* the commands the interpreter gives a connected drone
TelloCommands ==
    {[method |-> "takeoff", cmd |-> "TAKEOFF", val |-> 0, msg |-> "takeoff"],
     [method |-> "land", cmd |-> "LAND", val |-> 0, msg |-> "land"],
     [method |-> "move", cmd |-> "FORWARD", val |-> 50, msg |-> "forward 50"],
     [method |-> "move", cmd |-> "FORWARD", val |-> 10, msg |-> "forward 10"]}

\* takeoff(), land() and the movement methods: a movement out of range returns
\* False with nothing sent
command_call ==
    /\ caller.phase = "connected"
    /\ caller.method = "none"
    /\ \E c \in TelloCommands :
          IF c.method = "move" /\ ~in_command_range(c.cmd, c.val)
          THEN /\ caller' = [caller EXCEPT !.ret = "False"]
               /\ UNCHANGED <<tello, network>>
          ELSE /\ Len(tello.cmd_log) < MaxCommands
               /\ tello' = send_cmd(tello, c.msg, c.method)
               /\ network' = Append(network, "sent")
               /\ caller' = [caller EXCEPT !.method = c.method, !.ret = "none"]
    /\ UNCHANGED <<compile_vars, vm_vars, run_vars, stop_run, run_btn, self_program>>

\* `self.active = False` up to the joins of shutdown()
close(t) == [t EXCEPT !.active = FALSE, !.stream_active = FALSE, !.closed = TRUE]

\* shutdown(): when connected, land if self.flying and close the channel
shutdown_call ==
    /\ caller.phase \in {"connected", "failed"}
    /\ caller.method = "none"
    /\ IF tello.connected /\ tello.flying
       THEN /\ Len(tello.cmd_log) < MaxCommands
            /\ tello' = send_cmd(tello, "land", "shutdown")
            /\ network' = Append(network, "sent")
            /\ caller' = [caller EXCEPT !.method = "shutdown", !.ret = "none"]
       ELSE /\ tello' = IF tello.connected THEN close(tello) ELSE tello
            /\ caller' = [caller EXCEPT !.phase = "shut down", !.ret = "none"]
            /\ UNCHANGED network
    /\ UNCHANGED <<compile_vars, vm_vars, run_vars, stop_run, run_btn, self_program>>

\* the response wait loop of __send_cmd ends: with the entry's response, or,
\* while it is still None, with the timeout, which writes "TIMED OUT" and returns
\* None.  Then the method that called __send_cmd goes on.
send_cmd_end ==
    /\ caller.method # "none"
    /\ LET n == Len(tello.cmd_log)
           e == tello.cmd_log[n]
           res == IF e.response = "None" THEN "None" ELSE e.response
           done == [tello EXCEPT !.cmd_log[n] =
                       IF e.response = "None"
                       THEN [e EXCEPT !.response = "TIMED OUT", !.returned = "None"]
                       ELSE [e EXCEPT !.returned = e.response, !.returned_from = e.from]]
           ok == IF res = "ok" THEN "True" ELSE "False"
       IN CASE caller.method = "connect" /\ res = "ok" ->
                   /\ n < MaxCommands
                   /\ tello' = send_cmd([done EXCEPT !.connected = TRUE], "streamon", "connect")
                   /\ network' = Append(network, "sent")
                   /\ caller' = [caller EXCEPT !.method = "streamon"]
            [] caller.method = "connect" /\ res # "ok" /\ caller.attempt < ATTEMPTS ->
                   /\ n < MaxCommands
                   /\ tello' = send_cmd(done, "command", "connect")
                   /\ network' = Append(network, "sent")
                   /\ caller' = [caller EXCEPT !.attempt = @ + 1]
            [] caller.method = "connect" /\ res # "ok" /\ caller.attempt >= ATTEMPTS ->
                   /\ tello' = done
                   /\ caller' = [caller EXCEPT !.method = "none", !.phase = "failed",
                                               !.ret = "False"]
                   /\ UNCHANGED network
            [] caller.method = "streamon" ->
                   /\ tello' = [done EXCEPT !.stream_active = TRUE, !.state_thread = TRUE]
                   /\ caller' = [caller EXCEPT !.method = "none", !.phase = "connected",
                                               !.ret = "True"]
                   /\ UNCHANGED network
            [] caller.method = "shutdown" ->
                   /\ tello' = close(done)
                   /\ caller' = [caller EXCEPT !.method = "none", !.phase = "shut down"]
                   /\ UNCHANGED network
            [] OTHER ->
                   /\ tello' = done
                   /\ caller' = [caller EXCEPT !.method = "none", !.ret = ok]
                   /\ UNCHANGED network
    /\ UNCHANGED <<compile_vars, vm_vars, run_vars, stop_run, run_btn, self_program>>

\* the drone answers a command it was sent
tello_answers ==
    /\ \E i \in DOMAIN network, answer \in {"ok", "error"} :
          /\ network[i] = "sent"
          /\ network' = [network EXCEPT ![i] = answer]
    /\ UNCHANGED <<tello, caller, compile_vars, vm_vars, run_vars, stop_run, run_btn,
                   self_program>>

\* __receive: a datagram from the drone is stored as the response of the last
\* entry of cmd_log
receive ==
    /\ tello.active
    /\ \E i \in DOMAIN network :
          /\ network[i] \in {"ok", "error"}
          /\ tello' = [tello EXCEPT !.cmd_log[Len(tello.cmd_log)] =
                          [@ EXCEPT !.response = network[i], !.from = i]]
          /\ network' = [network EXCEPT ![i] = "delivered"]
    /\ UNCHANGED <<caller, compile_vars, vm_vars, run_vars, stop_run, run_btn, self_program>>

\* __receive_state: a telemetry datagram that does not decode is stored as the
\* response "Decode Error" of the last entry of cmd_log
receive_state ==
    /\ tello.active
    /\ tello.state_thread
    /\ tello' = [tello EXCEPT !.cmd_log[Len(tello.cmd_log)] =
                    [@ EXCEPT !.response = "Decode Error", !.from = 0]]
    /\ UNCHANGED <<network, caller, compile_vars, vm_vars, run_vars, stop_run, run_btn,
                   self_program>>

compile_step == compile_line \/ compile_return \/ host_compile

host_step == host_run_program \/ stop_prog \/ host_break \/ reset

generator_step ==
    \/ run_program_start \/ run_program_again \/ run_program_end \/ run_program_none
    \/ receive_video

instruction_step ==
    \/ exec_NOP \/ exec_HALT \/ exec_STORE \/ exec_COPY \/ exec_COPY_PIC
    \/ exec_PUSH_NUM \/ exec_PUSH_RETURN \/ exec_PUSH_PIC \/ exec_POP_NUM \/ exec_POP_PIC
    \/ exec_BRANCH \/ exec_JUMP \/ exec_JUMP_RETURN \/ exec_ARITH
    \/ exec_TAKEOFF \/ exec_LAND \/ exec_MOVE
    \/ exec_DISPLAY \/ exec_TAKE_PIC \/ exec_LOAD_PIC \/ exec_DETECT_FACE \/ exec_MATCH_FACE
    \/ exec_default

Init == CompileInit /\ VmInit /\ RunInit /\ TelloInit

Next == compile_step \/ host_step \/ generator_step \/ instruction_step

Spec == Init /\ [][Next]_vars

\* a TelloDrone by itself: its methods called as run_program calls them, the
\* drone answering, the receiving threads
\* no program text is involved
TelloOnly == Init /\ lines = <<>>

TelloSpec ==
    TelloOnly /\ [][\/ connect_call \/ command_call \/ shutdown_call \/ send_cmd_end
                    \/ tello_answers \/ receive \/ receive_state]_vars

\* a host that keeps resuming: the for loop of DroneASMInterface.run_program asks
\* the generator for its next item until the generator ends or the loop is left
ResumingSpec ==
    Spec /\ WF_vars(\/ run_program_start \/ run_program_end \/ run_program_none
                    \/ instruction_step \/ host_break)

(***************************************************************************)
(* Properties of run_program                                               *)
(***************************************************************************)
\* control is back with the host for good: the generator returned, raised, or
\* was closed by the host
run_ended == gen \in {"returned", "raised", "closed"}

\* an instruction raised: the line at program_counter is the one that did
instruction_raised == gen = "raised" /\ executed > 0

FATAL_ERRORS == {"RuntimeSoftwareErrorException", "RuntimeHardwareErrorException"}

\* C1: however a run of run_program ends (halt, program_counter past the last
\* line, host cancellation, any exception), the vehicle's shutdown has been
\* invoked by then.
C1_ShutdownOnEveryExit == run_ended => drone.shutdown_calls >= 1

\* C2: when run_program raises RuntimeSoftwareErrorException or
\* RuntimeHardwareErrorException, shutdown was invoked exactly once in that run.
C2_ShutdownOnceBeforeFatalError ==
    (gen = "raised" /\ run_exc.exc \in FATAL_ERRORS) => drone.shutdown_calls = 1

\* C3: after the host requested a stop at a suspension point, the run ends as
\* after HALT: run_program returns and the vehicle has been shut down.
C3_StopEndsAsHalt ==
    (stop_run /\ gen # "suspended") => (gen = "returned" /\ drone.shutdown_calls >= 1)

\* the label operand of the line at program_counter is in no label_map entry
unresolved(k) == label_lookup(program, join(arg(k).value)).exc # "none"

\* the branch at program_counter is taken
taken ==
    LET cmd == join(current_line[1].value)
        val1 == resolve(arg(1), num_reg)
        val2 == resolve(arg(2), num_reg)
    IN /\ val1.exc = NoException
       /\ val2.exc = NoException
       /\ compare(cmd, val1.val, val2.val) = [exc |-> "none", val |-> TRUE]

\* the line at program_counter refers to a label defined nowhere: a JUMP, a
\* PUSH_RETURN or a taken branch
refers_to_undefined_label ==
    LET cmd == join(current_line[1].value)
    IN \/ cmd \in {"JUMP", "PUSH_RETURN"} /\ unresolved(1)
       \/ cmd \in BRANCHES /\ taken /\ unresolved(3)

\* C4: a program that refers to an undefined label compiles, and executing the
\* referring instruction fails with RuntimeSoftwareErrorException.
C4_UndefinedLabelIsSoftwareError ==
    (instruction_raised /\ refers_to_undefined_label)
        => run_exc.exc = "RuntimeSoftwareErrorException"

\* C5: executing POP_RETURN with a return address on the stack moves the top of
\* return_stack to return_reg, leaves num_stack and num_reg alone, and the run
\* goes on.
C5_PopReturnPopsReturnStack ==
    [][(Fetch({"POP_RETURN"}) /\ return_stack # <<>> /\ executed' = executed + 1)
          => /\ return_reg' = return_stack[Len(return_stack)]
             /\ return_stack' = SubSeq(return_stack, 1, Len(return_stack) - 1)
             /\ UNCHANGED <<num_stack, num_reg>>
             /\ gen' = "suspended"]_vars

(***************************************************************************)
(* Properties of compile                                                   *)
(***************************************************************************)
\* source line k as compile hands it to tokenize
tokens_of(k) == tokenize(preprocess(lines[k]))

\* compile raised while it processed source line k
stopped_at(k) == compile_pc = "raised" /\ line_num = k

\* the tokens of a line without its label
instruction_of(tokens) ==
    IF tokens # <<>> /\ tokens[1].token_type = "Label" THEN Tail(tokens) ELSE tokens

\* source line k is a command, after an optional label, with n arguments
command_line(k, n) ==
    /\ tokens_of(k).exc = "none"
    /\ Len(instruction_of(tokens_of(k).tokens)) = n + 1
    /\ instruction_of(tokens_of(k).tokens)[1].token_type = "Command"

command_of(k) == join(instruction_of(tokens_of(k).tokens)[1].value)

\* the number of arguments ARGS_DICT declares for a command
arity(command) == CHOOSE n \in DOMAIN ARGS_DICT : command \in ARGS_DICT[n]

\* compile raised ValidationErrorException with this message at source line k
rejected(k, message) ==
    /\ stopped_at(k)
    /\ compile_exc.exc = "ValidationErrorException"
    /\ compile_exc.line = k
    /\ compile_exc.message = message

\* C6: a source line that is empty after preprocess is accepted and becomes the
\* single instruction NOP, and a compiled program has one instruction per
\* source line.
C6_EmptyLineIsNop ==
    /\ \A k \in 1..line_num :
          preprocess(lines[k]) = <<>>
              => /\ ~stopped_at(k)
                 /\ get_line(program, k - 1) = <<_NOP_TOKEN>>
    /\ compile_pc = "returned" => line_count(program) = Len(lines)

\* source line k is a label and nothing else
bare_label(k) ==
    /\ tokens_of(k).exc = "none"
    /\ Len(tokens_of(k).tokens) = 1
    /\ tokens_of(k).tokens[1].token_type = "Label"

\* C7: a source line that is a bare label is accepted: it is stored as a NOP and
\* the label stands for that instruction, unless a later line defines it again.
C7_BareLabelIsNop ==
    \A k \in 1..line_num :
        bare_label(k)
            => /\ ~stopped_at(k)
               /\ get_line(program, k - 1) = <<_NOP_TOKEN>>
               /\ label_lookup(program, join(tokens_of(k).tokens[1].value)).exc = "none"
               /\ label_lookup(program, join(tokens_of(k).tokens[1].value)).val >= k - 1

\* C8: when compile raises, it raises TokenizerErrorException or
\* ValidationErrorException, with the number of the line it stopped at as the
\* prefix of the message.
C8_CompileErrorKinds ==
    compile_pc = "raised"
        => /\ compile_exc.exc \in {"TokenizerErrorException", "ValidationErrorException"}
           /\ compile_exc.line = line_num

\* C9: a command with a number of arguments other than the one ARGS_DICT
\* declares for it, more than three included, is rejected with
\* ValidationErrorException (invalid number of arguments).
C9_WrongArgumentCountRejected ==
    \A k \in 1..line_num : \A n \in 0..4 :
        (command_line(k, n) /\ n # arity(command_of(k)))
            => rejected(k, "Invalid number of arguments for specified command.")

\* C10: PUSH_PIC, POP_PIC or TAKE_PIC with one argument that is no picture
\* register is rejected with ValidationErrorException (invalid argument type).
C10_PictureArgumentChecked ==
    \A k \in 1..line_num :
        (/\ command_line(k, 1)
         /\ command_of(k) \in {"PUSH_PIC", "POP_PIC", "TAKE_PIC"}
         /\ ~_test_pic_register(instruction_of(tokens_of(k).tokens)[2]))
            => rejected(k, "Invalid argument type(s) for specified command.")

(***************************************************************************)
(* Properties of tokenize and validate_line                                *)
(***************************************************************************)
\* the source line compile has just been through, as long as no run has begun:
\* each line of the text is that line in one state
processed ==
    IF gen = "none" /\ reset_exc = "not called" /\ line_num > 0 THEN {line_num} ELSE {}

\* the command and the arguments of source line k; none when tokenize raised
instruction(k) == instruction_of(tokens_of(k).tokens)

\* the tokens t are a command of cmds and n arguments
is_command(t, cmds, n) ==
    /\ Len(t) = n + 1
    /\ t[1].token_type = "Command"
    /\ join(t[1].value) \in cmds

LITERALS == {"IntNumber", "FloatNumber"}

\* the instruction at program_counter is a STORE that raised 'Unknown value type.'
store_unknown_value_type ==
    /\ instruction_raised
    /\ join(current_line[1].value) = "STORE"
    /\ run_exc = SoftwareError("Unknown value type.")

\* C11 as stated: a STORE line is accepted exactly when its first argument is a
\* NumberRegister or an integer/float literal and its second a NumberRegister,
\* and no accepted STORE raises 'Unknown value type.' in the VM.
C11_StoreTakesNumeric ==
    /\ \A k \in processed :
          LET t == instruction(k)
          IN is_command(t, {"STORE"}, 2)
                 => (~stopped_at(k) <=> /\ t[2].token_type \in LITERALS \cup {"NumReg"}
                                        /\ t[3].token_type = "NumReg")
    /\ ~store_unknown_value_type

\* C11, amended: a STORE line is accepted exactly when its first argument is an
\* integer/float literal and its second a NumberRegister; every other STORE
\* line is rejected with ValidationErrorException (invalid argument type), and
\* no accepted STORE raises 'Unknown value type.' in the VM.
C11_StoreTakesLiteral ==
    /\ \A k \in processed :
          LET t == instruction(k)
          IN is_command(t, {"STORE"}, 2)
                 => IF t[2].token_type \in LITERALS /\ t[3].token_type = "NumReg"
                    THEN ~stopped_at(k)
                    ELSE rejected(k, "Invalid argument type(s) for specified command.")
    /\ ~store_unknown_value_type

\* a float literal was stored: STORE 1.5 $R1 ran and register 1 holds 1.5
C11_LiteralStored ==
    /\ lines = <<chars("STORE 1.5 $R1")>>
    /\ gen = "returned"
    /\ num_reg[1] = FloatV(3, 2)

\* C12: a branch or arithmetic line with three arguments is accepted exactly
\* when arguments 1 and 2 are each a NumberRegister or an integer/float literal
\* and argument 3 is an Identifier (branches) or a NumberRegister (arithmetic);
\* every other combination of token kinds is rejected with
\* ValidationErrorException.
C12_ThreeArgumentTypes ==
    \A k \in processed :
        LET t == instruction(k)
            third == IF join(t[1].value) \in BRANCHES THEN "Identifier" ELSE "NumReg"
        IN is_command(t, BRANCHES \cup ARITHMETIC, 3)
               => IF /\ t[2].token_type \in LITERALS \cup {"NumReg"}
                     /\ t[3].token_type \in LITERALS \cup {"NumReg"}
                     /\ t[4].token_type = third
                  THEN ~stopped_at(k)
                  ELSE stopped_at(k) /\ compile_exc.exc = "ValidationErrorException"

\* a branch on a register and a float literal to an identifier was compiled
C12_BranchAccepted ==
    /\ lines = <<chars("BRANCH_GE $R1 1.5 M")>>
    /\ compile_pc = "returned"
    /\ line_count(program) = 1

\* part is a run of consecutive characters of line
infix(part, line) ==
    \E i \in 1..(Len(line) - Len(part) + 1) : SubSeq(line, i, i + Len(part) - 1) = part

\* the tokens the self-test's line is said to give
ExampleTokens ==
    <<Token("Label", chars("MARK1")), Token("Command", chars("JUMP")),
      Token("FloatNumber", chars("12.3")), Token("FloatNumber", chars("-3.4")),
      Token("FloatNumber", chars("+3.14")), Token("Identifier", chars("MARK2")),
      Token("IntNumber", chars("-13")), Token("IntNumber", chars("+16")),
      Token("NumReg", chars("6")), Token("PicReg", chars("6")),
      Token("String", chars("Hello, World!"))>>

\* C13: the text of a string token is exactly the characters between the quotes
\* of the source line, verbatim, and the line MARK1: JUMP 12.3 -3.4 +3.14 MARK2
\* -13 +16 $R6 $P6 "Hello, World!" gives the tokens Label(MARK1) ...
\* String(Hello, World!) in that order.
C13_TokenTexts ==
    \A k \in 1..line_num :
        LET t == tokenize(lines[k])
        IN t.exc = "none"
               => /\ \A i \in DOMAIN t.tokens :
                        t.tokens[i].token_type = "String"
                            => infix(<<"\"">> \o t.tokens[i].value \o <<"\"">>, lines[k])
                  /\ lines[k] = ExampleLine => t.tokens = ExampleTokens

\* the FSM of tokenize after the first i characters of the line it loops over
fsm_after(line, i) ==
    fsm_loop(SubSeq(upper(strip(line)), 1, i), 1, Fsm("S", <<>>, <<>>, ""))

\* C14: a whitespace character met outside a string literal ends the current
\* token: after consuming it the FSM is in the Start state, and "$R 1" is not
\* tokenized as the single register token 1.
C14_WhitespaceEndsToken ==
    \A k \in 1..line_num :
        /\ \A i \in 1..Len(strip(lines[k])) :
              (/\ isspace(strip(lines[k])[i])
               /\ fsm_after(lines[k], i - 1).exc = ""
               /\ fsm_after(lines[k], i - 1).state # "Str1")
                  => fsm_after(lines[k], i).state = "S"
        /\ lines[k] = chars("$R 1")
              => tokenize(lines[k]).tokens # <<Token("NumReg", chars("1"))>>

\* the number of quote characters of a line
quotes(line) == Cardinality({i \in DOMAIN line : line[i] = "\""})

\* the line ends in a register prefix that stands outside a string literal
register_prefix(line) ==
    /\ quotes(line) % 2 = 0
    /\ \E prefix \in {<<"$">>, <<"$", "R">>, <<"$", "P">>} :
          /\ Len(line) >= Len(prefix)
          /\ SubSeq(line, Len(line) - Len(prefix) + 1, Len(line)) = prefix

\* the states in which the FSM may end the line
ACCEPTING == {"PicReg2", "NumReg2", "Str2", "Num1", "Num2", "Id", "Lbl"}

\* C15: for a non-empty line whose last token is incomplete at the end of the
\* line, a string literal never closed or a register prefix $, $R or $P with
\* no digit, tokenize raises TokenizerErrorException; and tokenize returns
\* normally only if the FSM is in an accepting state at the end of the line.
C15_IncompleteTokenRaises ==
    \A k \in processed :
        LET line == upper(strip(lines[k]))
            t == tokenize(lines[k])
        IN line # <<>>
               => /\ (quotes(line) % 2 = 1 \/ register_prefix(line))
                         => t.exc = "TokenizerErrorException"
                  /\ t.exc = "none" => fsm_after(lines[k], Len(line)).state \in ACCEPTING

\* compile stopped at a line that ends inside a string literal
C15_UnterminatedString ==
    /\ lines = <<chars("\"a")>>
    /\ compile_pc = "raised"
    /\ compile_exc = [exc |-> "TokenizerErrorException", line |-> 1,
                      message |-> "Unknown/incomplete token."]

(***************************************************************************)
(* Properties of the instructions, of the path and of reset                *)
(***************************************************************************)
\* the instruction at program_counter divides by zero: its first operand
\* resolves, its second resolves to the integer 0 or the float 0.0, and its
\* destination is one of the numeric registers
divides_by_zero ==
    /\ resolve(arg(1), num_reg).exc = NoException
    /\ resolve(arg(2), num_reg).exc = NoException
    /\ resolve(arg(2), num_reg).val \in {IntV(0), FloatV(0, 1)}
    /\ index(arg(3)).exc = NoException
    /\ index(arg(3)).val \in 0..(NUMERICAL_REGISTERS - 1)

adds_to_five(source) ==
    lines = source
        => /\ compile_pc # "raised"
           /\ gen = "returned"
                  => /\ num_reg[0] = IntV(5)
                     /\ displayed = <<Shown("print", IntV(5), "")>>

\* C17 as stated: the program ADD 2 3 0 / DISPLAY $R0 compiles and, when
\* executed, leaves numeric register 0 holding 5 and displays 5.
C17_AddLiteralDestination ==
    adds_to_five(<<chars("ADD 2 3 0"), chars("DISPLAY $R0")>>)

\* C17, amended: the program ADD 2 3 $R0 / DISPLAY $R0 compiles and, when
\* executed, leaves numeric register 0 holding 5 and displays 5.
C17_AddRegisterDestination ==
    adds_to_five(<<chars("ADD 2 3 $R0"), chars("DISPLAY $R0")>>)

\* the run of ADD 2 3 $R0 / DISPLAY $R0 returned with 5 in register 0, shown once
C17_FiveDisplayed ==
    /\ lines = <<chars("ADD 2 3 $R0"), chars("DISPLAY $R0")>>
    /\ gen = "returned"
    /\ num_reg[0] = IntV(5)
    /\ displayed = <<Shown("print", IntV(5), "")>>

\* C18: constructing a DroneVM and running the compiled program FORWARD 50
\* against the simulated vehicle ends with a path of exactly two points, the
\* origin (0,0,0) and (50,0,0).
C18_ForwardPath ==
    (/\ lines = <<chars("FORWARD 50")>>
     /\ simulated
     /\ gen \in {"returned", "raised"})
        => /\ init_exc = "none"
           /\ gen = "returned"
           /\ drone_path = << <<0, 0, 0>>, <<50, 0, 0>> >>

\* the step executes a movement instruction that the vehicle accepts: the
\* operand resolves to a number and the vehicle does not refuse
movement_accepted ==
    /\ Fetch(MOVEMENTS)
    /\ executed' = executed + 1
    /\ resolve(arg(1), num_reg).exc = NoException
    /\ is_number(resolve(arg(1), num_reg).val)
    /\ ~(gen' = "raised" /\ run_exc' = HardwareError("Could not complete maneuver"))

\* C19: drone_path is append-only: each step leaves it alone or appends one
\* point; it grows by exactly one point for each movement instruction that the
\* vehicle accepts, and by nothing in any other step.
C19_PathAppendOnly ==
    [][/\ \/ drone_path' = drone_path
          \/ /\ Len(drone_path') = Len(drone_path) + 1
             /\ SubSeq(drone_path', 1, Len(drone_path)) = drone_path
       /\ movement_accepted => Len(drone_path') = Len(drone_path) + 1
       /\ ~movement_accepted => drone_path' = drone_path]_vars

\* the state DroneVM.__init__ is written to leave: 16 numeric registers at 0, 8
\* empty picture and 8 empty face registers, return register 0, three empty
\* stacks, vehicle and shadow tracker at the origin, a path of one point
fresh_vm ==
    /\ num_reg = [i \in 0..15 |-> IntV(0)]
    /\ pic_reg = [i \in 0..7 |-> NoneV]
    /\ face_reg = [i \in 0..7 |-> <<"None", "None">>]
    /\ return_reg = 0
    /\ num_stack = <<>> /\ pic_stack = <<>> /\ return_stack = <<>>
    /\ drone.kind = "SimulatedDrone" /\ drone.location = <<0, 0, 0>>
    /\ drone_tracking.kind = "SimulatedDrone" /\ drone_tracking.location = <<0, 0, 0>>
    /\ drone_path = << <<0, 0, 0>> >>

\* C20: DroneVM() returns a VM in the fresh state, and reset(), after any runs,
\* returns with the VM in that state again.
C20_FreshAndReset ==
    /\ init_exc = "none"
    /\ (gen = "none" /\ reset_exc = "not called") => fresh_vm
    /\ (gen = "none" /\ reset_exc # "not called") => (reset_exc = "none" /\ fresh_vm)

\* the register operands of the instruction at program_counter, each as
\* <<position, size of its bank>>; an operand that may also be a literal counts
\* when its token is a NumReg
register_operands ==
    LET cmd == join(current_line[1].value)
        num(k) == {<<k, NUMERICAL_REGISTERS>>}
        pic(k) == {<<k, PICTURE_REGISTERS>>}
        face(k) == {<<k, FACE_REGISTERS>>}
        value(k) == IF arg(k).token_type = "NumReg" THEN num(k) ELSE {}
    IN CASE cmd \in {"STORE", "COPY"} -> (IF cmd = "COPY" THEN num(1) ELSE {}) \cup num(2)
         [] cmd = "COPY_PIC" -> pic(1) \cup pic(2)
         [] cmd \in {"PUSH_NUM"} \cup MOVEMENTS -> value(1)
         [] cmd = "POP_NUM" -> num(1)
         [] cmd \in {"PUSH_PIC", "POP_PIC", "TAKE_PIC"} -> pic(1)
         [] cmd \in BRANCHES -> value(1) \cup value(2)
         [] cmd \in ARITHMETIC -> value(1) \cup value(2) \cup num(3)
         [] cmd = "DISPLAY" -> value(1) \cup (IF arg(1).token_type = "PicReg" THEN pic(1) ELSE {})
         [] cmd = "LOAD_PIC" -> pic(2)
         [] cmd = "DETECT_FACE" -> pic(1) \cup face(2) \cup num(3)
         [] cmd = "MATCH_FACE" -> face(1) \cup face(2) \cup num(3)
         [] OTHER -> {}

\* every register operand names an index, and one of them lies outside its bank
index_outside_bank ==
    /\ \A op \in register_operands : index(arg(op[1])).exc = NoException
    /\ \E op \in register_operands : ~in_bank(index(arg(op[1])).val, op[2])

C22_YieldAfterEachInstruction ==
    [][/\ (executed' = executed + 1 /\ gen' # "raised") => yields' = yields + 1
       /\ (gen' = "returned") => yields' = executed']_vars

(***************************************************************************)
(* Properties of the vehicles and of the host                              *)
(***************************************************************************)
\* C23: what __send_cmd returns as the response of a command is the drone's
\* answer to that same command, received before its timeout: a command is
\* reported "ok" only on its own "ok", and neither a late answer to an earlier
\* command nor a decode error of the telemetry channel is taken as its response.
C23_ResponseOfSameCommand ==
    \A i \in DOMAIN tello.cmd_log :
        LET e == tello.cmd_log[i]
        IN e.returned \notin {"waiting", "None"} => e.returned_from = i

\* C24: TAKE_PIC with a register of the bank, on a simulated or a live vehicle,
\* raises no error and completes with a frame in the picture register.
C24_TakePicStoresFrame ==
    [][(/\ Fetch({"TAKE_PIC"})
        /\ executed' = executed + 1
        /\ index(arg(1)).exc = NoException
        /\ in_bank(index(arg(1)).val, PICTURE_REGISTERS))
           => /\ gen' # "raised"
              /\ pic_reg'[index(arg(1)).val] = ImgV]_vars

\* the drone is off the ground as far as the caller was told: a takeoff was
\* reported "ok" and no land() after it has been
airborne ==
    \E i \in DOMAIN tello.cmd_log :
        /\ tello.cmd_log[i].by = "takeoff"
        /\ tello.cmd_log[i].returned = "ok"
        /\ \A j \in DOMAIN tello.cmd_log :
               (j > i /\ tello.cmd_log[j].by = "land") => tello.cmd_log[j].returned # "ok"

\* C25: when shutdown() has closed the connection of a drone that had taken off
\* (a takeoff acknowledged "ok") and had not landed since, it sent the land
\* command before closing.
C25_ShutdownLands ==
    (tello.closed /\ airborne) => \E i \in DOMAIN tello.cmd_log : tello.cmd_log[i].by = "shutdown"

\* C26: after a compilation attempt that produced no program, whatever the
\* failure, the host holds no program and its Run button is disabled; Run is
\* only ever invoked with a successfully compiled program.
C26_FailedCompileDisablesRun ==
    [][/\ compile_pc' = "raised" => (self_program' = "None" /\ run_btn' = "disabled")
       /\ (gen = "none" /\ gen' = "created") => self_program = "program"]_vars

\* the movement at program_counter has a number as operand that is outside the
\* range of its command: [20, 500] for a distance, [1, 360] for an angle
out_of_range ==
    LET val == resolve(arg(1), num_reg)
    IN /\ val.exc = NoException
       /\ is_number(val.val)
       /\ ~in_command_range(join(current_line[1].value), trunc(val.val))

\* C27: a movement whose argument is out of range is refused by the vehicle,
\* simulated or live: the instruction fails with the HardwareError of a refused
\* maneuver and the vehicle has not moved.
C27_SameRanges ==
    [][(Fetch(MOVEMENTS) /\ executed' = executed + 1 /\ out_of_range)
           => /\ gen' = "raised"
              /\ run_exc' = Maneuver
              /\ drone'.location = drone.location
              /\ drone'.facing = drone.facing]_vars

\* the index program.label_lookup gives for the label of the JUMP or of the
\* branch at program_counter
label_index ==
    LET cmd == join(current_line[1].value)
    IN label_lookup(program, join(arg(IF cmd = "JUMP" THEN 1 ELSE 3).value)).val

related(cmd, a, b) ==
    LET both == is_number(a) /\ is_number(b)
    IN CASE cmd = "BRANCH_EQ" -> IF both THEN a.n * b.d = b.n * a.d ELSE a = b
         [] cmd = "BRANCH_NE" -> IF both THEN a.n * b.d # b.n * a.d ELSE a # b
         [] cmd = "BRANCH_GT" -> both /\ a.n * b.d > b.n * a.d
         [] cmd = "BRANCH_LT" -> both /\ a.n * b.d < b.n * a.d
         [] cmd = "BRANCH_GE" -> both /\ a.n * b.d >= b.n * a.d
         [] cmd = "BRANCH_LE" -> both /\ a.n * b.d <= b.n * a.d

\* both operands of the branch at program_counter resolve and its label is
\* defined
branch_resolved ==
    /\ resolve(arg(1), num_reg).exc = NoException
    /\ resolve(arg(2), num_reg).exc = NoException
    /\ label_lookup(program, join(arg(3).value)).exc = "none"

\* C29: a branch whose operands resolve (a register to its current value, a
\* literal to its value) leaves program_counter at the index of its label when
\* its relation holds between the two values and at program_counter + 1 when it
\* does not, and changes no register, no stack and not the path.
C29_BranchRule ==
    [][(Fetch(BRANCHES) /\ executed' = executed + 1 /\ branch_resolved)
          => /\ gen' # "raised"
             /\ program_counter' =
                    IF related(join(current_line[1].value), resolve(arg(1), num_reg).val,
                               resolve(arg(2), num_reg).val)
                    THEN label_index ELSE program_counter + 1
             /\ UNCHANGED <<reg_vars, stack_vars, drone_path>>]_vars

\* C30: a movement the vehicle accepts is replayed once on the shadow tracker,
\* with the same truncated argument, and a movement that fails or is refused is
\* not replayed and moves nothing; in simulated mode the vehicle and the shadow
\* tracker have the same location and facing whenever the generator is
\* suspended, and during and after a run the last point of drone_path is the
\* shadow tracker's location.
C30_ShadowLockstep ==
    [][/\ movement_accepted
              => drone_tracking' = move(drone_tracking, join(current_line[1].value),
                                        trunc(resolve(arg(1), num_reg).val))
       /\ (Fetch(MOVEMENTS) /\ executed' = executed + 1 /\ ~movement_accepted)
              => /\ drone_tracking' = drone_tracking
                 /\ drone'.location = drone.location
                 /\ drone'.facing = drone.facing
       /\ (simulated' /\ gen' = "suspended")
              => /\ drone'.location = drone_tracking'.location
                 /\ drone'.facing = drone_tracking'.facing
       /\ (gen' \in {"suspended", "returned", "raised"})
              => /\ drone_path' # <<>>
                 /\ drone_path'[Len(drone_path')] = drone_tracking'.location]_vars

\* source line k defines label: its first token is a Label of that text
defines(k, label) ==
    LET t == tokens_of(k).tokens
    IN t # <<>> /\ t[1].token_type = "Label" /\ join(t[1].value) = label

\* C31: after compile returned, every stored line is non-empty and begins with
\* a Command token (so with no Label token), and every entry of the label map
\* is an index in [0, line_count()): the number of lines stored before the
\* last source line that defines the label.
C31_CompiledProgram ==
    compile_pc = "returned"
        => /\ \A i \in 0..(line_count(program) - 1) :
                 /\ get_line(program, i) # <<>>
                 /\ get_line(program, i)[1].token_type = "Command"
           /\ \A label \in DOMAIN program.label_map :
                 /\ program.label_map[label] \in 0..(line_count(program) - 1)
                 /\ (gen = "none" /\ reset_exc = "not called")
                        => \E k \in DOMAIN lines :
                              /\ defines(k, label)
                              /\ program.label_map[label] = k - 1
                              /\ \A j \in DOMAIN lines : defines(j, label) => j <= k

\* STORE 2 $R1 / M: BRANCH_NE $R1 $R0 M was compiled: two stored lines, M at 1
C31_LabelOnSecondLine ==
    /\ lines = <<chars("STORE 2 $R1"), chars("M: BRANCH_NE $R1 $R0 M")>>
    /\ compile_pc = "returned"
    /\ gen = "none"
    /\ program.label_map = [x \in {"M"} |-> 1]
    /\ line_count(program) = 2

\* C32: executing IDIV or RDIV with a second operand that resolves to zero ends
\* the run with RuntimeSoftwareErrorException, as DIV does: no register is
\* written and the vehicle's shutdown is invoked before the error.
C32_FloorDivideByZero ==
    [][(Fetch({"IDIV", "RDIV"}) /\ divides_by_zero /\ executed' = executed + 1)
          => /\ gen' = "raised"
             /\ run_exc'.exc = "RuntimeSoftwareErrorException"
             /\ UNCHANGED reg_vars
             /\ drone'.shutdown_calls = drone.shutdown_calls + 1]_vars

\* the compiled program has no JUMP, JUMP_RETURN or branch
jump_free ==
    \A i \in 0..(line_count(program) - 1) :
        join(get_line(program, i)[1].value) \notin BRANCHES \cup {"JUMP", "JUMP_RETURN"}

\* the generator is gone: it returned, it raised, or the host closed it
run_over == gen \in {"returned", "raised", "closed"}

C34_CounterInProgram ==
    /\ (gen = "suspended" /\ self_program # "None")
           => program_counter \in 0..line_count(program)
    /\ return_reg \in 0..line_count(program)

\* the JUMP of JUMP M / M: HALT went to line 1, the last line
C34_JumpedToLastLine ==
    /\ lines = <<chars("JUMP M"), chars("M: HALT")>>
    /\ gen = "suspended"
    /\ executed = 1
    /\ program_counter = 1

\* C35: every numeric register and every element of the numeric stack holds a
\* number, an integer or a float, never a picture or None.
C35_NumericBank ==
    /\ \A i \in DOMAIN num_reg : is_number(num_reg[i])
    /\ \A j \in DOMAIN num_stack : is_number(num_stack[j])

\* the instruction at program_counter has one argument, an index of the bank
\* of the given size
register_in_bank(size) ==
    /\ index(arg(1)).exc = NoException
    /\ in_bank(index(arg(1)).val, size)

\* C36: the picture stack is always empty, no instruction pushing onto it, and
\* a POP_PIC of a picture register pops the empty stack: it never succeeds.
C36_PictureStackEmpty ==
    /\ pic_stack = <<>>
    /\ [][/\ pic_stack' = <<>>
          /\ (/\ Fetch({"POP_PIC"})
              /\ executed' = executed + 1
              /\ register_in_bank(PICTURE_REGISTERS))
                 => /\ gen' = "raised"
                    /\ run_exc'.exc = "IndexError"
                    /\ UNCHANGED pic_reg]_vars

\* POP_PIC $P1 after a PUSH_PIC $P1: the stack it pops is empty all the same
C36_PopAfterPush ==
    /\ lines = <<chars("PUSH_PIC $P1"), chars("POP_PIC $P1")>>
    /\ gen = "raised"
    /\ run_exc.exc = "IndexError"
    /\ executed = 2
    /\ pic_stack = <<>>

\* C37: POP_NUM of a numeric register with the numeric stack empty, and POP_PIC
\* of a picture register with the picture stack empty, end the run with
\* RuntimeSoftwareErrorException, the vehicle shut down first, and write no
\* register.
C37_EmptyPopHandled ==
    [][(/\ executed' = executed + 1
        /\ \/ Fetch({"POP_NUM"}) /\ register_in_bank(NUMERICAL_REGISTERS) /\ num_stack = <<>>
           \/ Fetch({"POP_PIC"}) /\ register_in_bank(PICTURE_REGISTERS) /\ pic_stack = <<>>)
          => /\ gen' = "raised"
             /\ run_exc'.exc = "RuntimeSoftwareErrorException"
             /\ drone'.shutdown_calls = drone.shutdown_calls + 1
             /\ UNCHANGED reg_vars]_vars


\* the characters of a number token: one sign at most, and that one in front, and
\* a decimal digit somewhere
signed_digits(value) ==
    /\ \E i \in DOMAIN value : isdigit(value[i])
    /\ \A i \in DOMAIN value : value[i] \in {"+", "-"} => i = 1

\* C38: every IntNumber or FloatNumber token that tokenize produces holds at
\* least one digit and at most one leading sign, so that int() of an IntNumber
\* and float() of a FloatNumber succeed and no run ends in the ValueError of a
\* numeric literal ("+", "-" or "+." are not number tokens).
C38_NumberTokens ==
    /\ \A k \in 1..line_num :
          LET t == tokenize(lines[k])
          IN t.exc = "none"
                 => \A i \in DOMAIN t.tokens :
                       /\ t.tokens[i].token_type = "IntNumber"
                              => /\ signed_digits(t.tokens[i].value)
                                 /\ int(t.tokens[i].value).exc = "none"
                       /\ t.tokens[i].token_type = "FloatNumber"
                              => /\ signed_digits(t.tokens[i].value)
                                 /\ float(t.tokens[i].value).exc = "none"
    /\ gen = "raised" => run_exc # Raised("ValueError", "invalid literal")


\* C39: a run with simulated = True drives a simulated vehicle whatever ran
\* before it on the same DroneVM: once such a run has begun, after a live run and
\* no reset too, self.drone is a SimulatedDrone and not the live vehicle.
C39_SimulatedRunSimulates ==
    (simulated /\ gen \in {"suspended", "returned", "raised", "closed"})
        => drone.kind = "SimulatedDrone"


\* the angles the two rotations are compared on
RotationAngles == {1, 90, 360}

\* rotate_cw(d) and then rotate_ccw(d) on a vehicle
turned_and_back(d, angle) == move(move(d, "ROTATE_CW", angle), "ROTATE_CCW", angle)

\* C40: on the simulated vehicle and on the shadow tracker, ROTATE_CW d followed
\* by ROTATE_CCW d restores the heading held before the two: the two rotations
\* are inverse to each other, for every angle d.
C40_RotationsInverse ==
    \A angle \in RotationAngles :
        /\ drone.kind = "SimulatedDrone" => turned_and_back(drone, angle).facing = drone.facing
        /\ turned_and_back(drone_tracking, angle).facing = drone_tracking.facing

====
